---------------------------- MODULE Spec2Model ----------------------------
(***************************************************************************)
(* Model of the Proxmox MCP server: the identifier validators, the         *)
(* permission gate, the two call-tool dispatchers (flat: index.js,         *)
(* modular: dist/server.js with the per-family tool modules) and the       *)
(* operation handlers, each as the sequence of transport calls it issues   *)
(* and the envelope it returns.                                            *)
(*                                                                         *)
(* Strings are sequences of runs [c, n]: the symbol c repeated n times.    *)
(* A symbol is one character ("p", ";", " ") or, for text the program      *)
(* writes itself, one literal fragment of a template ("/nodes/").          *)
(***************************************************************************)
EXTENDS Integers, Sequences, FiniteSets, TLC

VARIABLES
    env,            \* process.env.PROXMOX_ALLOW_ELEVATED
    allowElevated,  \* this.allowElevated, the permission gate
    pc,             \* "idle" | "running" | "waiting" | "done"
    variant,        \* "flat" (index.js) | "modular" (dist/server.js)
    name,           \* request.params.name of the call being served
    arguments,           \* the arguments of the call being served
    calls,          \* transport calls issued by the call being served
    resps,          \* transport outcomes received by the call being served
    response,         \* what the call-tool handler gave back
    vfun,           \* validator specification: which validator is applied
    vin,            \* validator specification: its input
    vout            \* validator specification: its outcome(s)

vars == <<env, allowElevated, pc, variant, name, arguments, calls, resps, response,
          vfun, vin, vout>>

-----------------------------------------------------------------------------
(* Strings *)

Run(c, n) == [c |-> c, n |-> n]

Lit(c) == <<Run(c, 1)>>

\* the characters of a string, one run each
Chars(cs) == [i \in 1..Len(cs) |-> Run(cs[i], 1)]

RECURSIVE StrLen(_)
StrLen(s) == IF s = <<>> THEN 0 ELSE Head(s).n + StrLen(Tail(s))

Symbols(s) == {s[i].c : i \in 1..Len(s)}

\* the same string with adjacent runs of one symbol merged
RECURSIVE Norm(_)
Norm(s) ==
    IF Len(s) < 2 THEN s
    ELSE LET r == Norm(Tail(s))
         IN  IF Head(r).c = Head(s).c
             THEN <<Run(Head(s).c, Head(s).n + Head(r).n)>> \o Tail(r)
             ELSE <<Head(s)>> \o r

Contains(s, p) ==
    \E i \in 0..(Len(s) - Len(p)) : SubSeq(s, i + 1, i + Len(p)) = p

StartsWith(s, p) == Len(s) >= Len(p) /\ SubSeq(s, 1, Len(p)) = p

DigitChars == {"0", "1", "2", "3", "4", "5", "6", "7", "8", "9"}

WhiteSpaceChars == {" ", "\t", "\n"}

DigitValue(c) ==
    CASE c = "0" -> 0 [] c = "1" -> 1 [] c = "2" -> 2 [] c = "3" -> 3
      [] c = "4" -> 4 [] c = "5" -> 5 [] c = "6" -> 6 [] c = "7" -> 7
      [] c = "8" -> 8 [] c = "9" -> 9

DigitChar(d) ==
    CASE d = 0 -> "0" [] d = 1 -> "1" [] d = 2 -> "2" [] d = 3 -> "3"
      [] d = 4 -> "4" [] d = 5 -> "5" [] d = 6 -> "6" [] d = 7 -> "7"
      [] d = 8 -> "8" [] d = 9 -> "9"

-----------------------------------------------------------------------------
(* JavaScript values *)

JUndefined == [t |-> "undefined", s |-> <<>>, n |-> 0, items |-> <<>>]

JNull == [t |-> "null", s |-> <<>>, n |-> 0, items |-> <<>>]

JStr(s) == [t |-> "string", s |-> s, n |-> 0, items |-> <<>>]

JNum(n) == [t |-> "number", s |-> <<>>, n |-> n, items |-> <<>>]

JBool(b) == [t |-> "boolean", s |-> <<>>, n |-> IF b THEN 1 ELSE 0, items |-> <<>>]

\* an array of values
JArray(items) == [t |-> "array", s |-> <<>>, n |-> 0, items |-> items]

\* an object: its properties, a sequence of [k, v]
JObject(props) == [t |-> "object", s |-> <<>>, n |-> 0, items |-> props]

\* a property named by a literal, and one named by a computed string
Prop(k, v) == [k |-> Lit(k), v |-> v]

PropAt(key, v) == [k |-> Norm(key), v |-> v]

\* o[key] (undefined when o is no object or has no such property)
GetAt(o, key) ==
    LET at == {i \in 1..Len(o.items) : o.items[i].k = Norm(key)}
    IN  IF o.t = "object" /\ at # {} THEN o.items[CHOOSE i \in at : TRUE].v
        ELSE JUndefined

\* o.k
Get(o, k) == GetAt(o, Lit(k))

\* reading a property of undefined or null throws a TypeError
Nullish(v) == v.t \in {"undefined", "null"}

\* ToBoolean
Truthy(v) ==
    CASE v.t = "string" -> v.s # <<>>
      [] v.t = "number" -> v.n # 0
      [] v.t = "boolean" -> v.n = 1
      [] v.t \in {"array", "object"} -> TRUE
      [] OTHER -> FALSE

\* Number.prototype.toString for an integer
NumToStr(n) ==
    LET RECURSIVE NatToStr(_)
        NatToStr(m) ==
            IF m < 10 THEN Lit(DigitChar(m))
            ELSE NatToStr(m \div 10) \o Lit(DigitChar(m % 10))
    IN  IF n < 0 THEN Lit("-") \o NatToStr(0 - n) ELSE NatToStr(n)

\* ToString, as applied by template literals and by parseInt
ToStr(v) ==
    CASE v.t = "string" -> v.s
      [] v.t = "number" -> NumToStr(v.n)
      [] v.t = "boolean" -> Lit(IF v.n = 1 THEN "true" ELSE "false")
      [] v.t = "null" -> Lit("null")
      [] v.t = "object" -> Lit("[object Object]")
      [] v.t = "array" -> Lit("[array]")
      [] OTHER -> Lit("undefined")

\* a || b
Or(a, b) == IF Truthy(a) THEN a ELSE b

-----------------------------------------------------------------------------
(* Identifier validators (index.js, "Input validation methods for security") *)

NodeNameMaxLen == 64

MinVMID == 100

MaxVMID == 999999999

CommandMaxLen == 1000

Valid(v) == [ok |-> TRUE, v |-> v, err |-> <<>>]

Invalid(msg) == [ok |-> FALSE, v |-> <<>>, err |-> Lit(msg)]

\* the character class of /^[a-zA-Z0-9\-_]+$/
\* the class a-zA-Z of a regular expression
LetterChars ==
    {"a", "b", "c", "d", "e", "f", "g", "h", "i", "j", "k", "l", "m",
     "n", "o", "p", "q", "r", "s", "t", "u", "v", "w", "x", "y", "z",
     "A", "B", "C", "D", "E", "F", "G", "H", "I", "J", "K", "L", "M",
     "N", "O", "P", "Q", "R", "S", "T", "U", "V", "W", "X", "Y", "Z"}

NodeNameChars == LetterChars \cup DigitChars \cup {"-", "_"}

validateNodeNameNoLengthCheck(node) ==
    IF ~Truthy(node) \/ node.t # "string"
    THEN Invalid("Node name is required and must be a string")
    ELSE IF ~(Symbols(node.s) \subseteq NodeNameChars)
    THEN Invalid("Invalid node name format. Only alphanumeric, hyphens, and underscores allowed")
    ELSE Valid(node.s)

validateNodeName(node) ==
    IF ~Truthy(node) \/ node.t # "string"
    THEN Invalid("Node name is required and must be a string")
    ELSE IF ~(Symbols(node.s) \subseteq NodeNameChars)
    THEN Invalid("Invalid node name format. Only alphanumeric, hyphens, and underscores allowed")
    ELSE IF StrLen(node.s) > NodeNameMaxLen
    THEN Invalid("Node name too long (max 64 characters)")
    ELSE Valid(node.s)

NaN == [nan |-> TRUE, v |-> 0]

Num(v) == [nan |-> FALSE, v |-> v]

\* parseInt(s, 10): leading white space is skipped, then a sign, then the
\* longest run of decimal digits is read and what follows is ignored.  A
\* value above MaxVMID is kept as MaxVMID + 1 (all that is read of such a
\* value is that it is out of range).
parseInt(s) ==
    LET RECURSIVE TrimLeft(_)
        TrimLeft(x) ==
            IF x # <<>> /\ Head(x).c \in WhiteSpaceChars THEN TrimLeft(Tail(x)) ELSE x
        RECURSIVE AppendDigits(_, _, _)
        AppendDigits(v, d, n) ==
            IF n = 0 THEN v
            ELSE IF v >= (MaxVMID + 1) \div 10 THEN MaxVMID + 1
            ELSE AppendDigits(v * 10 + d, d, n - 1)
        RECURSIVE DigitPrefix(_, _)
        DigitPrefix(x, v) ==
            IF x # <<>> /\ Head(x).c \in DigitChars
            THEN DigitPrefix(Tail(x), AppendDigits(v, DigitValue(Head(x).c), Head(x).n))
            ELSE v
        DropOne(x) ==
            IF Head(x).n = 1 THEN Tail(x)
            ELSE <<Run(Head(x).c, Head(x).n - 1)>> \o Tail(x)
        Signed(t) == t # <<>> /\ Head(t).c \in {"+", "-"}
        Digits(negative, u) ==
            IF u = <<>> \/ Head(u).c \notin DigitChars THEN NaN
            ELSE IF negative THEN Num(0 - DigitPrefix(u, 0))
            ELSE Num(DigitPrefix(u, 0))
        Number(t) ==
            IF Signed(t) THEN Digits(Head(t).c = "-", DropOne(t)) ELSE Digits(FALSE, t)
    IN  Number(TrimLeft(s))

validateVMID(vmid) ==
    IF ~Truthy(vmid) THEN Invalid("VM ID is required")
    ELSE LET InRange(id) ==
                 IF id.nan \/ id.v < MinVMID \/ id.v > MaxVMID
                 THEN Invalid("Invalid VM ID. Must be a number between 100 and 999999999")
                 ELSE Valid(NumToStr(id.v))
         IN  InRange(parseInt(ToStr(vmid)))

\* the character class of the regular expression dangerousChars
\* (the grave accent is written "GRAVE": the lexer of TLA+ takes none in a string)
DangerousChars == {";", "&", "|", "GRAVE", "$", "(", ")", "{", "}", "[", "]",
                   "<", ">", "\\"}

\* RegExp.prototype.test of a global regular expression made of one character
\* class: the search starts at lastIndex.
RegexTest(class, lastIndex, s) ==
    LET RECURSIVE DropChars(_, _)
        DropChars(x, k) ==
            IF k = 0 \/ x = <<>> THEN x
            ELSE IF Head(x).n <= k THEN DropChars(Tail(x), k - Head(x).n)
            ELSE <<Run(Head(x).c, Head(x).n - k)>> \o Tail(x)
    IN  Symbols(DropChars(s, lastIndex)) \cap class # {}

\* the validator gives back the first word of the command only (a plausible
\* slip)
validateCommandFirstWord(command) ==
    IF ~Truthy(command) \/ command.t # "string"
    THEN Invalid("Command is required and must be a string")
    ELSE IF RegexTest(DangerousChars, 0, command.s)
    THEN Invalid("Command contains potentially dangerous characters: ; & | GRAVE $ ( ) { } [ ] < > \\")
    ELSE Valid(<<Head(command.s)>>)

validateCommandNoLengthCheck(command) ==
    IF ~Truthy(command) \/ command.t # "string"
    THEN Invalid("Command is required and must be a string")
    ELSE IF RegexTest(DangerousChars, 0, command.s)
    THEN Invalid("Command contains potentially dangerous characters: ; & | GRAVE $ ( ) { } [ ] < > \\")
    ELSE Valid(command.s)

\* dangerousChars is a new regular expression on every call: lastIndex is 0
validateCommand(command) ==
    IF ~Truthy(command) \/ command.t # "string"
    THEN Invalid("Command is required and must be a string")
    ELSE IF RegexTest(DangerousChars, 0, command.s)
    THEN Invalid("Command contains potentially dangerous characters: ; & | GRAVE $ ( ) { } [ ] < > \\")
    ELSE IF StrLen(command.s) > CommandMaxLen
    THEN Invalid("Command exceeds maximum allowed length (1000 characters)")
    ELSE Valid(command.s)

-----------------------------------------------------------------------------
(* Request transport: proxmoxRequest (index.js, core/proxmox.ts) *)

NoBody == [given |-> FALSE, kv |-> <<>>]

\* a request body: its fields, a sequence of [k, v]
Body(kv) == [given |-> TRUE, kv |-> kv]

Request(path, method, body) == [path |-> path, method |-> method, body |-> body]

\* what fetch and the remote gave: the connection failed, or a response with
\* a status that is not ok, an empty body, a body that is no JSON, or {data}
Http(kind, data) == [kind |-> kind, data |-> data]

Resolved(data) == [ok |-> TRUE, data |-> data, err |-> <<>>]

Rejected(msg) == [ok |-> FALSE, data |-> JUndefined, err |-> msg]

\* the outcome of proxmoxRequest for what fetch and the remote gave
proxmoxRequest(http) ==
    CASE http.kind = "refused" ->
            Rejected(Lit("Failed to connect to Proxmox: ") \o Lit("connect ECONNREFUSED"))
      [] http.kind = "status" ->
            Rejected(Lit("Failed to connect to Proxmox: ") \o Lit("Proxmox API error: ")
                     \o Lit("500") \o Lit(" - ") \o Lit("<the response text>"))
      [] http.kind = "empty" ->
            Rejected(Lit("Failed to connect to Proxmox: ")
                     \o Lit("Empty response from Proxmox API"))
      [] http.kind = "garbage" ->
            Rejected(Lit("Failed to parse Proxmox API response: ")
                     \o Lit("Unexpected token"))
      [] OTHER -> Resolved(http.data)

-----------------------------------------------------------------------------
(* What a handler does next, given the transport outcomes it has had so far: *)
(* issue a request, return an envelope, or throw.                            *)

NoRequest == Request(<<>>, "", NoBody)

Req(path, method, body) ==
    [k |-> "req", req |-> Request(path, method, body), text |-> <<>>,
     hasText |-> FALSE, isError |-> FALSE]

\* { content: [{ type: 'text', text }] }
Ret(text) ==
    [k |-> "ret", req |-> NoRequest, text |-> text, hasText |-> TRUE, isError |-> FALSE]

\* { content: [{ type: 'text', text }], isError: true }
RetError(text) ==
    [k |-> "ret", req |-> NoRequest, text |-> text, hasText |-> TRUE, isError |-> TRUE]

\* an exception leaves the function; text is error.message
Throw(msg) ==
    [k |-> "throw", req |-> NoRequest, text |-> msg, hasText |-> FALSE, isError |-> FALSE]

TypeErrorMessage == Lit("TypeError: ")
        \o Lit("<not iterable, or a property of undefined or null>")

\* the first validator outcome that is a failure
FirstInvalid(vs) == vs[CHOOSE i \in 1..Len(vs) : ~vs[i].ok /\ \A j \in 1..(i - 1) : vs[j].ok]

AllValid(vs) == \A i \in 1..Len(vs) : vs[i].ok

\* the text every gate writes when elevated access is not granted
Advisory(title, todo) ==
    Lit("**") \o Lit(title) \o Lit(" ") \o Lit("Requires ") \o Lit("Elevated Permissions")
    \o Lit("**") \o Lit(todo) \o Lit(", set ") \o Lit("PROXMOX_ALLOW_ELEVATED=true")
    \o Lit(" in your .env file") \o Lit("**Current permissions**: Basic")

\* the text of a catch block: head, error.message, tail
Failure(head, msg, tail) == Lit(head) \o Lit("Error: ") \o msg \o Lit(tail)

\* result || 'N/A'
OrNA(v) == IF Truthy(v) THEN ToStr(v) ELSE Lit("N/A")

\* the concatenation of f(x) for the elements x of a sequence
RECURSIVE Concat(_)
Concat(xs) == IF xs = <<>> THEN <<>> ELSE Head(xs) \o Concat(Tail(xs))

-----------------------------------------------------------------------------
(* Operation handlers of the flat server (index.js).  this is the server    *)
(* object: [allowElevated]; rs are the outcomes of the transport calls the   *)
(* handler has awaited so far.                                               *)

\* a parameter with a default value: the default replaces undefined only
Default(v, d) == IF v.t = "undefined" THEN d ELSE v

\* String.prototype.toUpperCase on the type names (other symbols hold no
\* lower-case letter the model tells apart)
toUpperCase(s) ==
    LET UpperSymbol(c) ==
            CASE c = "qemu" -> "QEMU" [] c = "lxc" -> "LXC" [] c = "all" -> "ALL"
              [] c = "docker" -> "DOCKER" [] OTHER -> c
    IN  [i \in 1..Len(s) |-> Run(UpperSymbol(s[i].c), s[i].n)]

NodeLine(node) ==
    Lit("**") \o ToStr(Get(node, "node")) \o Lit("**") \o Lit("Status: ")
    \o ToStr(Get(node, "status"))

\* list nodes behind the gate, as the gated handlers are (a plausible slip)
getNodesGated(this, rs) ==
    IF ~this.allowElevated THEN Ret(Advisory("Node Listing", "To list nodes"))
    ELSE IF rs = <<>> THEN Req(Lit("/nodes"), "GET", NoBody)
    ELSE IF ~rs[1].ok THEN Throw(rs[1].err)
    ELSE IF rs[1].data.t # "array" THEN Throw(TypeErrorMessage)
    ELSE Ret(Lit("**Proxmox Cluster Nodes**")
            \o Concat([i \in 1..Len(rs[1].data.items) |-> NodeLine(rs[1].data.items[i])]))

getNodes(this, rs) ==
    IF rs = <<>> THEN Req(Lit("/nodes"), "GET", NoBody)
    ELSE IF ~rs[1].ok THEN Throw(rs[1].err)
    ELSE IF rs[1].data.t # "array" THEN Throw(TypeErrorMessage)
    ELSE Ret(Lit("**Proxmox Cluster Nodes**")
            \o Concat([i \in 1..Len(rs[1].data.items) |-> NodeLine(rs[1].data.items[i])]))

getNodeStatus(this, node, rs) ==
    IF ~this.allowElevated
    THEN Ret(Advisory("Node Status", "To view detailed node status"))
    ELSE LET safeNode == validateNodeName(node)
             head == "**Failed to get node status**"
         IN  IF ~safeNode.ok THEN Ret(Failure(head, safeNode.err, ""))
             ELSE IF rs = <<>>
             THEN Req(Lit("/nodes/") \o safeNode.v \o Lit("/status"), "GET", NoBody)
             ELSE IF ~rs[1].ok THEN Ret(Failure(head, rs[1].err, ""))
             ELSE IF Nullish(rs[1].data) THEN Ret(Failure(head, TypeErrorMessage, ""))
             ELSE Ret(Lit("**Node ") \o safeNode.v \o Lit(" Status**")
                      \o Lit("Uptime: ") \o OrNA(Get(rs[1].data, "uptime")))

FamilyPath(type) == IF type = "qemu" THEN Lit("/qemu") ELSE Lit("/lxc")

\* the families asked in the other order (a plausible slip)
RECURSIVE VMPlanLxcFirst(_, _)
VMPlanLxcFirst(nodes, typeFilter) ==
    IF nodes = <<>> THEN <<>>
    ELSE (IF typeFilter \in {JStr(Lit("all")), JStr(Lit("lxc"))}
          THEN <<[node |-> Get(Head(nodes), "node"), type |-> "lxc"]>> ELSE <<>>)
         \o (IF typeFilter \in {JStr(Lit("all")), JStr(Lit("qemu"))}
             THEN <<[node |-> Get(Head(nodes), "node"), type |-> "qemu"]>> ELSE <<>>)
         \o VMPlanLxcFirst(Tail(nodes), typeFilter)

\* the sub-requests of a list over all nodes: per node, the selected families
RECURSIVE VMPlan(_, _)
VMPlan(nodes, typeFilter) ==
    IF nodes = <<>> THEN <<>>
    ELSE (IF typeFilter \in {JStr(Lit("all")), JStr(Lit("qemu"))}
          THEN <<[node |-> Get(Head(nodes), "node"), type |-> "qemu"]>> ELSE <<>>)
         \o (IF typeFilter \in {JStr(Lit("all")), JStr(Lit("lxc"))}
             THEN <<[node |-> Get(Head(nodes), "node"), type |-> "lxc"]>> ELSE <<>>)
         \o VMPlan(Tail(nodes), typeFilter)

\* Array.prototype.sort((a, b) => parseInt(a.vmid) - parseInt(b.vmid)): stable
\* (NaN compares as equal: no move).  An entry is { ...vm, type, node }.
RECURSIVE SortVMs(_)
SortVMs(es) ==
    LET VMKey(e) == parseInt(ToStr(Get(e.vm, "vmid")))
        RECURSIVE InsertVM(_, _)
        InsertVM(e, sorted) ==
            IF sorted = <<>> THEN <<e>>
            ELSE IF /\ ~VMKey(e).nan /\ ~VMKey(Head(sorted)).nan
                    /\ VMKey(e).v < VMKey(Head(sorted)).v
            THEN <<e>> \o sorted
            ELSE <<Head(sorted)>> \o InsertVM(e, Tail(sorted))
    IN  IF es = <<>> THEN <<>>
        ELSE InsertVM(es[Len(es)], SortVMs(SubSeq(es, 1, Len(es) - 1)))

VMsOutput(vms) ==
    LET VMLine(e) ==
            Lit("**") \o (IF Truthy(Get(e.vm, "name")) THEN ToStr(Get(e.vm, "name"))
                          ELSE Lit("VM-") \o ToStr(Get(e.vm, "vmid")))
            \o Lit("** (ID: ") \o ToStr(Get(e.vm, "vmid")) \o Lit(")")
            \o Lit("Node: ") \o ToStr(e.node)
            \o Lit("Status: ") \o ToStr(Get(e.vm, "status"))
            \o Lit("Type: ") \o toUpperCase(Lit(e.type))
    IN  Ret(Lit("**Virtual Machines**")
            \o (IF vms = <<>> THEN Lit("No virtual machines found.")
                ELSE LET sorted == SortVMs(vms)
                     IN  Concat([i \in 1..Len(sorted) |-> VMLine(sorted[i])])))

\* the entries of the sub-results received so far, tagged
RECURSIVE CollectVMs(_, _, _)
CollectVMs(plan, subs, lxcNodeOfEntry) ==
    IF subs = <<>> \/ plan = <<>> THEN <<>>
    ELSE LET p == Head(plan)
             tag(vm) == <<[vm |-> vm, type |-> p.type,
                           node |-> IF p.type = "lxc" /\ lxcNodeOfEntry
                                    THEN Or(Get(vm, "node"), p.node) ELSE p.node]>>
         IN  Concat([i \in 1..Len(Head(subs).data.items) |-> tag(Head(subs).data.items[i])])
             \o CollectVMs(Tail(plan), Tail(subs), lxcNodeOfEntry)

\* no sub-result ends the list: the loop goes on to the next node (a
\* plausible slip: a try/catch around the sub-request)
FirstBadSkipped(subs) == 0

\* the first sub-result that ends the list: a failed request, or data that is
\* no array (map throws); 0 when there is none
FirstBad(subs) ==
    IF \E i \in 1..Len(subs) : ~subs[i].ok \/ subs[i].data.t # "array"
    THEN CHOOSE i \in 1..Len(subs) :
            /\ ~subs[i].ok \/ subs[i].data.t # "array"
            /\ \A j \in 1..(i - 1) : subs[j].ok /\ subs[j].data.t = "array"
    ELSE 0

ThrowOf(r) == IF ~r.ok THEN Throw(r.err) ELSE Throw(TypeErrorMessage)

getVMs(this, nodeFilterArg, typeFilterArg, rs) ==
    LET nodeFilter == Default(nodeFilterArg, JNull)
        typeFilter == Default(typeFilterArg, JStr(Lit("all")))
        wantQemu == typeFilter \in {JStr(Lit("all")), JStr(Lit("qemu"))}
        wantLxc == typeFilter \in {JStr(Lit("all")), JStr(Lit("lxc"))}
    IN  IF Truthy(nodeFilter)
        THEN \* both families are requested, then the filter picks
             IF rs = <<>>
             THEN Req(Lit("/nodes/") \o ToStr(nodeFilter) \o Lit("/qemu"), "GET", NoBody)
             ELSE IF ~rs[1].ok THEN Throw(rs[1].err)
             ELSE IF Len(rs) = 1
             THEN Req(Lit("/nodes/") \o ToStr(nodeFilter) \o Lit("/lxc"), "GET", NoBody)
             ELSE IF ~rs[2].ok THEN Throw(rs[2].err)
             ELSE IF wantQemu /\ rs[1].data.t # "array" THEN Throw(TypeErrorMessage)
             ELSE IF wantLxc /\ rs[2].data.t # "array" THEN Throw(TypeErrorMessage)
             ELSE LET q(vm) == <<[vm |-> vm, type |-> "qemu", node |-> nodeFilter]>>
                      l(vm) == <<[vm |-> vm, type |-> "lxc", node |-> nodeFilter]>>
                  IN  VMsOutput((IF wantQemu THEN Concat([i \in 1..Len(rs[1].data.items) |-> q(rs[1].data.items[i])]) ELSE <<>>)
                                \o (IF wantLxc THEN Concat([i \in 1..Len(rs[2].data.items) |-> l(rs[2].data.items[i])]) ELSE <<>>))
        ELSE IF rs = <<>> THEN Req(Lit("/nodes"), "GET", NoBody)
             ELSE IF ~rs[1].ok THEN Throw(rs[1].err)
             ELSE IF rs[1].data.t # "array" THEN Throw(TypeErrorMessage)
             ELSE LET plan == VMPlan(rs[1].data.items, typeFilter)
                      subs == Tail(rs)
                  IN  IF FirstBad(subs) # 0 THEN ThrowOf(subs[FirstBad(subs)])
                      ELSE IF Len(subs) < Len(plan)
                      THEN LET p == plan[Len(subs) + 1]
                           IN  Req(Lit("/nodes/") \o ToStr(p.node) \o FamilyPath(p.type),
                                   "GET", NoBody)
                      ELSE VMsOutput(CollectVMs(plan, subs, TRUE))

getVMStatus(this, node, vmid, typeArg, rs) ==
    LET type == Default(typeArg, JStr(Lit("qemu")))
        safeNode == validateNodeName(node)
        safeVMID == validateVMID(vmid)
        fail(msg) == RetError(Lit("Failed to get VM status: ") \o msg)
    IN  IF ~safeNode.ok THEN fail(safeNode.err)
        ELSE IF ~safeVMID.ok THEN fail(safeVMID.err)
        ELSE IF rs = <<>>
        THEN Req(Lit("/nodes/") \o safeNode.v \o Lit("/") \o ToStr(type) \o Lit("/")
                 \o safeVMID.v \o Lit("/status/current"), "GET", NoBody)
        ELSE IF ~rs[1].ok THEN fail(rs[1].err)
        ELSE IF Nullish(rs[1].data) \/ type.t # "string" THEN fail(TypeErrorMessage)
        ELSE Ret(Lit("**") \o (IF Truthy(Get(rs[1].data, "name"))
                               THEN ToStr(Get(rs[1].data, "name"))
                               ELSE Lit("VM-") \o safeVMID.v)
                 \o Lit("** (ID: ") \o safeVMID.v \o Lit(")")
                 \o Lit("**Node**: ") \o safeNode.v
                 \o Lit("**Status**: ") \o ToStr(Get(rs[1].data, "status"))
                 \o Lit("**Type**: ") \o toUpperCase(type.s))

executeVMCommand(this, node, vmid, command, typeArg, rs) ==
    LET Validated(vs) ==
            IF ~this.allowElevated
            THEN Ret(Advisory("VM Command Execution", "To execute commands on VMs")
                     \o Lit("**Requested command**: ") \o ToStr(command))
            ELSE LET type == Default(typeArg, JStr(Lit("qemu")))
                     safeNode == vs[1].v
                     safeVMID == vs[2].v
                     safeCommand == vs[3].v
                     fail(msg) == Ret(Lit("**Failed to execute command on VM ") \o ToStr(vmid)
                                      \o Lit("**") \o Lit("Error: ") \o msg
                                      \o Lit("*Note: Make sure the VM has guest agent installed and running*"))
                     body == Body(<<Prop("command", JStr(safeCommand))>>)
                 IN  IF ~AllValid(vs) THEN fail(FirstInvalid(vs).err)
                     ELSE IF type = JStr(Lit("qemu"))
                     THEN IF rs = <<>>
                          THEN Req(Lit("/nodes/") \o safeNode \o Lit("/qemu/") \o safeVMID
                                   \o Lit("/agent/exec"), "POST", body)
                          ELSE IF ~rs[1].ok THEN fail(rs[1].err)
                          ELSE IF Nullish(rs[1].data) THEN fail(TypeErrorMessage)
                          ELSE Ret(Lit("**Command executed on VM ") \o safeVMID \o Lit("**")
                                   \o Lit("**Command**: ") \o safeCommand
                                   \o Lit("**PID**: ") \o OrNA(Get(rs[1].data, "pid")))
                     ELSE IF rs = <<>>
                          THEN Req(Lit("/nodes/") \o safeNode \o Lit("/lxc/") \o safeVMID
                                   \o Lit("/exec"), "POST", body)
                          ELSE IF ~rs[1].ok THEN fail(rs[1].err)
                          ELSE Ret(Lit("**Command executed on LXC ") \o safeVMID \o Lit("**")
                                   \o Lit("**Command**: ") \o safeCommand
                                   \o Lit("**Output**:")
                                   \o (IF Truthy(rs[1].data) THEN ToStr(rs[1].data)
                                       ELSE Lit("Command executed successfully")))
    IN  Validated(<<validateNodeName(node), validateVMID(vmid), validateCommand(command)>>)

\* An entry is { ...storage, node }: the entries whose key
\* `${storage.storage}-${storage.node}` was not seen before
RECURSIVE UniqueStorages(_, _)
UniqueStorages(es, seen) ==
    IF es = <<>> THEN <<>>
    ELSE LET key == <<Get(Head(es).storage, "storage"), Head(es).node>>
         IN  IF key \in seen THEN UniqueStorages(Tail(es), seen)
             ELSE <<Head(es)>> \o UniqueStorages(Tail(es), seen \cup {key})

\* Array.prototype.sort by a.key.localeCompare(b.key), of entries [key, e]:
\* stable; the e of the entries, in their new order.  NameRank is the order
\* of localeCompare on the names the remote uses (0: any other).
SortByName(es) ==
    LET NameRank(v) ==
            LET names == <<Chars(<<"l", "o", "c", "a", "l">>),
                           Chars(<<"p", "v", "e", "1">>), Chars(<<"p", "v", "e", "2">>),
                           Chars(<<"p", "v", "e", "3">>), Chars(<<"p", "v", "e", "4">>),
                           Chars(<<"z", "f", "s">>)>>
            IN  IF \E i \in 1..Len(names) : names[i] = ToStr(v)
                THEN CHOOSE i \in 1..Len(names) : names[i] = ToStr(v)
                ELSE 0
        RECURSIVE InsertByName(_, _)
        InsertByName(x, sorted) ==
            IF sorted = <<>> THEN <<x>>
            ELSE IF NameRank(x.key) < NameRank(Head(sorted).key) THEN <<x>> \o sorted
            ELSE <<Head(sorted)>> \o InsertByName(x, Tail(sorted))
        RECURSIVE Sort(_)
        Sort(xs) ==
            IF xs = <<>> THEN <<>>
            ELSE InsertByName(xs[Len(xs)], Sort(SubSeq(xs, 1, Len(xs) - 1)))
    IN  [i \in 1..Len(es) |-> Sort(es)[i].e]

StoragesOutput(storages) ==
    LET StorageName(e) == Get(e.storage, "storage")
        StorageLine(e) ==
            Lit("**") \o ToStr(StorageName(e)) \o Lit("**") \o Lit("Node: ")
            \o ToStr(e.node) \o Lit("Type: ") \o OrNA(Get(e.storage, "type"))
    IN  Ret(Lit("**Storage Pools**")
            \o (IF storages = <<>> THEN Lit("No storage found.")
                ELSE LET unique == UniqueStorages(storages, {})
                         sorted == SortByName([i \in 1..Len(unique) |->
                                                 [key |-> StorageName(unique[i]),
                                                  e |-> unique[i]]])
                     IN  Concat([i \in 1..Len(sorted) |-> StorageLine(sorted[i])])))

\* the entries of the sub-results received so far, each tagged with its node
RECURSIVE CollectStorages(_, _)
CollectStorages(nodes, subs) ==
    IF subs = <<>> \/ nodes = <<>> THEN <<>>
    ELSE LET tag(storage) == <<[storage |-> storage, node |-> Get(Head(nodes), "node")]>>
         IN  Concat([i \in 1..Len(Head(subs).data.items) |-> tag(Head(subs).data.items[i])])
                 \o CollectStorages(Tail(nodes), Tail(subs))

getStorage(this, nodeFilterArg, rs) ==
    LET nodeFilter == Default(nodeFilterArg, JNull)
    IN  IF Truthy(nodeFilter)
        THEN IF rs = <<>>
             THEN Req(Lit("/nodes/") \o ToStr(nodeFilter) \o Lit("/storage"), "GET", NoBody)
             ELSE IF ~rs[1].ok THEN Throw(rs[1].err)
             ELSE IF rs[1].data.t # "array" THEN Throw(TypeErrorMessage)
             ELSE LET tag(storage) == <<[storage |-> storage, node |-> nodeFilter]>>
                  IN  StoragesOutput(Concat([i \in 1..Len(rs[1].data.items) |-> tag(rs[1].data.items[i])]))
        ELSE IF rs = <<>> THEN Req(Lit("/nodes"), "GET", NoBody)
             ELSE IF ~rs[1].ok THEN Throw(rs[1].err)
             ELSE IF rs[1].data.t # "array" THEN Throw(TypeErrorMessage)
             ELSE LET nodes == rs[1].data.items
                      subs == Tail(rs)
                  IN  IF FirstBad(subs) # 0 THEN ThrowOf(subs[FirstBad(subs)])
                      ELSE IF Len(subs) < Len(nodes)
                      THEN Req(Lit("/nodes/") \o ToStr(Get(nodes[Len(subs) + 1], "node"))
                               \o Lit("/storage"), "GET", NoBody)
                      ELSE StoragesOutput(CollectStorages(nodes, subs))

getClusterStatus(this, rs) ==
    LET head == "**Failed to get cluster status**"
    IN  IF rs = <<>> THEN Req(Lit("/nodes"), "GET", NoBody)
        ELSE IF ~rs[1].ok THEN Ret(Failure(head, rs[1].err, ""))
        ELSE IF this.allowElevated /\ Len(rs) = 1
        THEN Req(Lit("/cluster/status"), "GET", NoBody)
        \* an error of the '/cluster/status' request is ignored
        ELSE IF rs[1].data.t # "array" THEN Ret(Failure(head, TypeErrorMessage, ""))
        ELSE LET nodes == rs[1].data.items
                 NodeName(node) == Get(node, "node")
                 NodeDetail(node) ==
                     ToStr(Get(node, "node")) \o Lit(" - ") \o ToStr(Get(node, "status"))
                 Online(ns) ==
                     {i \in 1..Len(ns) : Get(ns[i], "status") = JStr(Lit("online"))}
             IN  Ret(Lit("**Proxmox Cluster Status**")
                     \o Lit("**Cluster Health**: ")
                     \o (IF Cardinality(Online(nodes)) = Len(nodes) THEN Lit("Healthy")
                         ELSE Lit("Warning"))
                     \o Lit("**Nodes**: ") \o NumToStr(Cardinality(Online(nodes)))
                     \o Lit("/") \o NumToStr(Len(nodes)) \o Lit(" online")
                     \o (IF this.allowElevated THEN Lit("**Resource Usage**:")
                         ELSE Lit("**Limited Information**: Resource usage ")
                              \o Lit("requires elevated permissions"))
                     \o Lit("**Node Details**:")
                     \o (LET sorted == SortByName([i \in 1..Len(nodes) |->
                                                    [key |-> NodeName(nodes[i]),
                                                     e |-> nodes[i]]])
                         IN  Concat([i \in 1..Len(sorted) |-> NodeDetail(sorted[i])])))

listTemplates(this, node, storageArg, rs) ==
    LET storage == Default(storageArg, JStr(Lit("local")))
        safeNode == validateNodeName(node)
        TemplateLine(template) == Lit("**") \o ToStr(Get(template, "volid")) \o Lit("**")
        fail(msg) == Ret(Failure("**Failed to list templates**", msg,
                                 "**Note**: Make sure the storage exists and contains LXC templates."))
    IN  IF ~safeNode.ok THEN fail(safeNode.err)
        ELSE IF rs = <<>>
        THEN Req(Lit("/nodes/") \o safeNode.v \o Lit("/storage/") \o ToStr(storage)
                 \o Lit("/content?content=vztmpl"), "GET", NoBody)
        ELSE IF ~rs[1].ok THEN fail(rs[1].err)
        ELSE IF ~Truthy(rs[1].data) \/ (rs[1].data.t = "array" /\ rs[1].data.items = <<>>)
        THEN Ret(Lit("**Available LXC Templates**") \o Lit("No templates found on storage ")
                 \o ToStr(storage) \o Lit("**Tip**: Download templates in Proxmox:")
                 \o Lit("1. Go to your node, Storage, ") \o ToStr(storage))
        ELSE IF rs[1].data.t # "array" THEN fail(TypeErrorMessage)
        ELSE Ret(Lit("**Available LXC Templates**")
                \o Concat([i \in 1..Len(rs[1].data.items) |-> TemplateLine(rs[1].data.items[i])]))

\* the next free id behind the gate (a plausible slip)
getNextVMIDGated(this, rs) ==
    IF ~this.allowElevated THEN Ret(Advisory("VM ID Lookup", "To look up the next VM ID"))
    ELSE IF rs = <<>> THEN Req(Lit("/cluster/nextid"), "GET", NoBody)
    ELSE IF ~rs[1].ok THEN Ret(Failure("**Failed to get next VMID**", rs[1].err, ""))
    ELSE Ret(Lit("**Next Available VM/Container ID**: ") \o ToStr(rs[1].data))

getNextVMID(this, rs) ==
    IF rs = <<>> THEN Req(Lit("/cluster/nextid"), "GET", NoBody)
    ELSE IF ~rs[1].ok THEN Ret(Failure("**Failed to get next VMID**", rs[1].err, ""))
    ELSE Ret(Lit("**Next Available VM/Container ID**: ") \o ToStr(rs[1].data))

\* the gated handlers with a second request that waits for the task (a
\* plausible slip)
GuardedPolling(this, advisory, vs, req, rs) ==
    LET at(k, step, data, msg) == [k |-> k, step |-> step, data |-> data, msg |-> msg]
    IN  IF ~this.allowElevated THEN at("step", Ret(advisory), JUndefined, <<>>)
        ELSE IF ~AllValid(vs) THEN at("fail", Ret(<<>>), JUndefined, FirstInvalid(vs).err)
        ELSE IF rs = <<>> THEN at("step", req, JUndefined, <<>>)
        ELSE IF ~rs[1].ok THEN at("fail", Ret(<<>>), JUndefined, rs[1].err)
        ELSE IF Len(rs) = 1 THEN at("step", req, JUndefined, <<>>)
        ELSE at("done", Ret(<<>>), rs[1].data, <<>>)

\* the gated handlers with the validation ahead of the gate (a plausible
\* slip)
GuardedValidatesFirst(this, advisory, vs, req, rs) ==
    LET at(k, step, data, msg) == [k |-> k, step |-> step, data |-> data, msg |-> msg]
    IN  IF ~AllValid(vs) THEN at("fail", Ret(<<>>), JUndefined, FirstInvalid(vs).err)
        ELSE IF ~this.allowElevated THEN at("step", Ret(advisory), JUndefined, <<>>)
        ELSE IF rs = <<>> THEN at("step", req, JUndefined, <<>>)
        ELSE IF ~rs[1].ok THEN at("fail", Ret(<<>>), JUndefined, rs[1].err)
        ELSE at("done", Ret(<<>>), rs[1].data, <<>>)

\* the gated handlers without the try: the error of a validator leaves the
\* handler (a plausible slip)
GuardedThrowing(this, advisory, vs, req, rs) ==
    LET at(k, step, data, msg) == [k |-> k, step |-> step, data |-> data, msg |-> msg]
    IN  IF ~this.allowElevated THEN at("step", Ret(advisory), JUndefined, <<>>)
        ELSE IF ~AllValid(vs) THEN at("step", Throw(FirstInvalid(vs).err), JUndefined, <<>>)
        ELSE IF rs = <<>> THEN at("step", req, JUndefined, <<>>)
        ELSE IF ~rs[1].ok THEN at("fail", Ret(<<>>), JUndefined, rs[1].err)
        ELSE at("done", Ret(<<>>), rs[1].data, <<>>)

\* The shape of the gated handlers: the gate, then try { validate; one
\* request; text } catch (error) { text }
\* It gives the step of the handler ("step": the advisory or the request),
\* or the data its text is made of ("done"), or the message of the error its
\* catch renders ("fail").
Guarded(this, advisory, vs, req, rs) ==
    LET at(k, step, data, msg) == [k |-> k, step |-> step, data |-> data, msg |-> msg]
    IN  IF ~this.allowElevated THEN at("step", Ret(advisory), JUndefined, <<>>)
        ELSE IF ~AllValid(vs) THEN at("fail", Ret(<<>>), JUndefined, FirstInvalid(vs).err)
        ELSE IF rs = <<>> THEN at("step", req, JUndefined, <<>>)
        ELSE IF ~rs[1].ok THEN at("fail", Ret(<<>>), JUndefined, rs[1].err)
        ELSE at("done", Ret(<<>>), rs[1].data, <<>>)

\* `/nodes/${safeNode}/${type}/${safeVMID}` and what follows it
GuestPath(safeNode, type, safeVMID, rest) ==
    Lit("/nodes/") \o safeNode \o Lit("/") \o ToStr(type) \o Lit("/") \o safeVMID \o Lit(rest)

\* the lines every command text has: type is a string at every call site
Sent(head, safeNode, type, safeVMID, result) ==
    Ret(Lit(head) \o Lit("**VM ID**: ") \o safeVMID
        \o Lit("**Type**: ") \o toUpperCase(ToStr(type))
        \o Lit("**Node**: ") \o safeNode
        \o Lit("**Task ID**: ") \o OrNA(result))

\* crypto.randomBytes: a password the model does not look into
generateSecurePassword == Lit("<16 random characters>")

\* reading args.node of an absent arguments object throws inside the try
ArgsValid(args) ==
    IF Nullish(args) THEN <<[ok |-> FALSE, v |-> <<>>, err |-> TypeErrorMessage]>>
    ELSE <<validateNodeName(Get(args, "node")), validateVMID(Get(args, "vmid"))>>

createLXCContainer(this, args, rs) ==
    LET Validated(vs) ==
            LET safeNode == vs[1].v
                safeVMID == vs[2].v
                generatedPassword == IF Truthy(Get(args, "password")) THEN ToStr(Get(args, "password"))
                                     ELSE generateSecurePassword
                hostname == IF Truthy(Get(args, "hostname")) THEN ToStr(Get(args, "hostname"))
                            ELSE Lit("ct") \o safeVMID
                memory == Or(Get(args, "memory"), JNum(512))
                storage == Or(Get(args, "storage"), JStr(Lit("local-lvm")))
                body == Body(<<Prop("vmid", JStr(safeVMID)),
                               Prop("ostemplate", Get(args, "ostemplate")),
                               Prop("hostname", JStr(hostname)),
                               Prop("password", JStr(generatedPassword)),
                               Prop("memory", memory),
                               Prop("storage", storage),
                               Prop("rootfs", JStr(ToStr(storage) \o Lit(":")
                                                   \o ToStr(Or(Get(args, "rootfs"), JNum(8)))))>>)
                done(result) ==
                    Ret(Lit("**LXC Container Creation Started**")
                        \o Lit("**VM ID**: ") \o safeVMID \o Lit("**Hostname**: ") \o hostname
                        \o Lit("**Node**: ") \o safeNode
                        \o Lit("**Template**: ") \o ToStr(Get(args, "ostemplate"))
                        \o Lit("**Memory**: ") \o ToStr(memory)
                        \o Lit("**Storage**: ") \o ToStr(storage)
                        \o (IF ~Truthy(Get(args, "password"))
                            THEN Lit("**Generated Password**: ") \o generatedPassword ELSE <<>>)
                        \o Lit("**Task ID**: ") \o OrNA(result))
                fail(msg) == Failure("**Failed to create container**", msg, "**Common issues**")
            IN  LET Finish_(guarded) ==
                        IF guarded.k = "done" THEN done(guarded.data)
                        ELSE IF guarded.k = "fail" THEN Ret(fail(guarded.msg))
                        ELSE guarded.step
                IN  Finish_(Guarded(this, Advisory("Container Creation", "To create containers"), vs,
                                Req(Lit("/nodes/") \o safeNode \o Lit("/lxc"), "POST", body), rs))
    IN  Validated(ArgsValid(args))

createVM(this, args, rs) ==
    LET \* diskSize.replace(/[^0-9]/g, '')
        DigitsOf(diskSize) ==
            IF diskSize.t = "string"
            THEN Valid(SelectSeq(diskSize.s, LAMBDA r : r.c \in DigitChars))
            ELSE [ok |-> FALSE, v |-> <<>>, err |-> TypeErrorMessage]
        Validated(vs) ==
            LET safeNode == vs[1].v
                safeVMID == vs[2].v
                vmname == IF Truthy(Get(args, "name")) THEN ToStr(Get(args, "name"))
                          ELSE Lit("vm") \o safeVMID
                scsi0 == ToStr(Or(Get(args, "storage"), JStr(Lit("local-lvm")))) \o Lit(":") \o vs[3].v
                body == Body(<<Prop("vmid", JStr(safeVMID)),
                               Prop("name", JStr(vmname)),
                               Prop("memory", Or(Get(args, "memory"), JNum(512))),
                               Prop("cores", Or(Get(args, "cores"), JNum(1))),
                               Prop("sockets", Or(Get(args, "sockets"), JNum(1))),
                               Prop("ostype", Or(Get(args, "ostype"), JStr(Lit("l26")))),
                               Prop("net0", Or(Get(args, "net0"), JStr(Lit("virtio,bridge=vmbr0")))),
                               Prop("scsi0", JStr(scsi0))>>
                             \o (IF Truthy(Get(args, "iso"))
                                 THEN <<Prop("ide2", JStr(ToStr(Get(args, "iso"))
                                         \o Lit(",media=cdrom"))),
                                        Prop("boot", JStr(Lit("order=ide2;scsi0")))>>
                                 ELSE <<>>))
                done(result) ==
                    Ret(Lit("**QEMU VM Creation Started**")
                        \o Lit("**VM ID**: ") \o safeVMID \o Lit("**Name**: ") \o vmname
                        \o Lit("**Node**: ") \o safeNode \o Lit("**Disk**: ") \o scsi0
                        \o (IF Truthy(Get(args, "iso"))
                            THEN Lit("**ISO**: ") \o ToStr(Get(args, "iso")) ELSE <<>>)
                        \o Lit("**Task ID**: ") \o OrNA(result))
                fail(msg) == Failure("**Failed to create VM**", msg, "**Common issues**")
            IN  LET Finish_(guarded) ==
                        IF guarded.k = "done" THEN done(guarded.data)
                        ELSE IF guarded.k = "fail" THEN Ret(fail(guarded.msg))
                        ELSE guarded.step
                IN  Finish_(Guarded(this, Advisory("VM Creation", "To create VMs"), vs,
                                Req(Lit("/nodes/") \o safeNode \o Lit("/qemu"), "POST", body), rs))
    IN  Validated(IF Nullish(args) THEN ArgsValid(args)
                  ELSE ArgsValid(args)
                       \o <<DigitsOf(Or(Get(args, "disk_size"), JStr(Lit("8G"))))>>)

\* the handlers that post one command for a guest: start, stop, reboot,
\* shutdown (of the type given), suspend and resume (of a VM)
Command(this, advisory, node, vmid, type, action, head, failure, rs) ==
    LET Validated(vs) ==
            LET done(result) == Sent(head, vs[1].v, type, vs[2].v, result)
                fail(msg) == Failure(failure, msg, "")
            IN  LET Finish_(guarded) ==
                        IF guarded.k = "done" THEN done(guarded.data)
                        ELSE IF guarded.k = "fail" THEN Ret(fail(guarded.msg))
                        ELSE guarded.step
                IN  Finish_(Guarded(this, advisory, vs,
                                Req(GuestPath(vs[1].v, type, vs[2].v, action), "POST", Body(<<>>)), rs))
    IN  Validated(<<validateNodeName(node), validateVMID(vmid)>>)

startVM(this, node, vmid, typeArg, rs) ==
    Command(this, Advisory("VM Control", "To start/stop VMs"), node, vmid,
            Default(typeArg, JStr(Lit("lxc"))), "/status/start",
            "**VM/Container Start Command Sent**", "**Failed to start VM/Container**", rs)

stopVM(this, node, vmid, typeArg, rs) ==
    Command(this, Advisory("VM Control", "To start/stop VMs"), node, vmid,
            Default(typeArg, JStr(Lit("lxc"))), "/status/stop",
            "**VM/Container Stop Command Sent**", "**Failed to stop VM/Container**", rs)

rebootVM(this, node, vmid, typeArg, rs) ==
    Command(this, Advisory("VM Reboot", "To reboot VMs/containers"), node, vmid,
            Default(typeArg, JStr(Lit("lxc"))), "/status/reboot",
            "**VM/Container Reboot Command Sent**", "**Failed to reboot VM/Container**", rs)

shutdownVM(this, node, vmid, typeArg, rs) ==
    Command(this, Advisory("VM Shutdown", "To shutdown VMs/containers"), node, vmid,
            Default(typeArg, JStr(Lit("lxc"))), "/status/shutdown",
            "**VM/Container Shutdown Command Sent**", "**Failed to shutdown VM/Container**", rs)

pauseVM(this, node, vmid, rs) ==
    Command(this, Advisory("VM Pause", "To pause VMs"), node, vmid,
            JStr(Lit("qemu")), "/status/suspend",
            "**VM Pause Command Sent**", "**Failed to pause VM**", rs)

resumeVM(this, node, vmid, rs) ==
    Command(this, Advisory("VM Resume", "To resume VMs"), node, vmid,
            JStr(Lit("qemu")), "/status/resume",
            "**VM Resume Command Sent**", "**Failed to resume VM**", rs)

deleteVM(this, node, vmid, typeArg, rs) ==
    LET Validated(vs) ==
            LET type == Default(typeArg, JStr(Lit("lxc")))
                done(result) == Sent("**VM/Container Deletion Started**", vs[1].v, type, vs[2].v, result)
                fail(msg) == Failure("**Failed to delete VM/Container**", msg,
                                     "**Note**: Make sure the VM/container is stopped first.")
            IN  LET Finish_(guarded) ==
                        IF guarded.k = "done" THEN done(guarded.data)
                        ELSE IF guarded.k = "fail" THEN Ret(fail(guarded.msg))
                        ELSE guarded.step
                IN  Finish_(Guarded(this, Advisory("VM/Container Deletion",
                    "To delete VMs/containers"), vs,
                                Req(GuestPath(vs[1].v, type, vs[2].v, ""), "DELETE", NoBody), rs))
    IN  Validated(<<validateNodeName(node), validateVMID(vmid)>>)

cloneVM(this, node, vmid, newid, nameOrHostname, typeArg, rs) ==
    LET Validated(vs) ==
            LET type == Default(typeArg, JStr(Lit("lxc")))
                safeNode == vs[1].v
                safeVMID == vs[2].v
                safeNewID == vs[3].v
                newName == IF Truthy(nameOrHostname) THEN nameOrHostname
                           ELSE JStr(Lit("clone-") \o safeNewID)
                body == Body(<<Prop("newid", JStr(safeNewID)),
                               Prop(IF type = JStr(Lit("lxc")) THEN "hostname" ELSE "name", newName)>>)
                done(result) ==
                    Ret(Lit("**VM/Container Clone Started**")
                        \o Lit("**Source VM ID**: ") \o safeVMID
                        \o Lit("**New VM ID**: ") \o safeNewID
                        \o Lit("**New Name**: ") \o ToStr(newName)
                        \o Lit("**Type**: ") \o toUpperCase(ToStr(type))
                        \o Lit("**Node**: ") \o safeNode
                        \o Lit("**Task ID**: ") \o OrNA(result))
                fail(msg) == Failure("**Failed to clone VM/Container**", msg, "**Common issues**")
            IN  LET Finish_(guarded) ==
                        IF guarded.k = "done" THEN done(guarded.data)
                        ELSE IF guarded.k = "fail" THEN Ret(fail(guarded.msg))
                        ELSE guarded.step
                IN  Finish_(Guarded(this, Advisory("VM Clone", "To clone VMs/containers"), vs,
                                Req(GuestPath(safeNode, type, safeVMID, "/clone"), "POST", body), rs))
    IN  Validated(<<validateNodeName(node), validateVMID(vmid), validateVMID(newid)>>)

\* the body filled with defaults for what the caller left out (a plausible
\* slip)
resizeVMDefaults(this, node, vmid, memory, cores, typeArg, rs) ==
    LET Validated(vs) ==
            LET type == Default(typeArg, JStr(Lit("lxc")))
                body == <<Prop("memory", Or(memory, JNum(512))),
                          Prop("cores", Or(cores, JNum(1)))>>
                safeNode == vs[1].v
                safeVMID == vs[2].v
                done(result) ==
                    Ret(Lit("**VM/Container Resize Command Sent**")
                        \o Lit("**VM ID**: ") \o safeVMID
                        \o Lit("**Type**: ") \o toUpperCase(ToStr(type))
                        \o Lit("**Node**: ") \o safeNode
                        \o (IF memory.t # "undefined"
                            THEN Lit("**New Memory**: ") \o ToStr(memory) ELSE <<>>)
                        \o (IF cores.t # "undefined"
                            THEN Lit("**New Cores**: ") \o ToStr(cores) ELSE <<>>)
                        \o Lit("**Task ID**: ") \o OrNA(result))
                fail(msg) == Failure("**Failed to resize VM/Container**", msg, "**Common issues**")
            IN  IF this.allowElevated /\ body = <<>>
                THEN \* before the try: the identifiers are not validated yet
                     Ret(Lit("**No Resize Parameters Provided**")
                         \o Lit("Please specify at least one parameter:"))
                ELSE LET Finish_(guarded) ==
                        IF guarded.k = "done" THEN done(guarded.data)
                        ELSE IF guarded.k = "fail" THEN Ret(fail(guarded.msg))
                        ELSE guarded.step
                IN  Finish_(Guarded(this, Advisory("VM Resize", "To resize VMs/containers"), vs,
                                Req(GuestPath(safeNode, type, safeVMID, "/config"), "PUT", Body(body)),
                                        rs))
    IN  Validated(<<validateNodeName(node), validateVMID(vmid)>>)

resizeVM(this, node, vmid, memory, cores, typeArg, rs) ==
    LET Validated(vs) ==
            LET type == Default(typeArg, JStr(Lit("lxc")))
                body == (IF memory.t # "undefined" THEN <<Prop("memory", memory)>> ELSE <<>>)
                        \o (IF cores.t # "undefined" THEN <<Prop("cores", cores)>> ELSE <<>>)
                safeNode == vs[1].v
                safeVMID == vs[2].v
                done(result) ==
                    Ret(Lit("**VM/Container Resize Command Sent**")
                        \o Lit("**VM ID**: ") \o safeVMID
                        \o Lit("**Type**: ") \o toUpperCase(ToStr(type))
                        \o Lit("**Node**: ") \o safeNode
                        \o (IF memory.t # "undefined"
                            THEN Lit("**New Memory**: ") \o ToStr(memory) ELSE <<>>)
                        \o (IF cores.t # "undefined"
                            THEN Lit("**New Cores**: ") \o ToStr(cores) ELSE <<>>)
                        \o Lit("**Task ID**: ") \o OrNA(result))
                fail(msg) == Failure("**Failed to resize VM/Container**", msg, "**Common issues**")
            IN  IF this.allowElevated /\ body = <<>>
                THEN \* before the try: the identifiers are not validated yet
                     Ret(Lit("**No Resize Parameters Provided**")
                         \o Lit("Please specify at least one parameter:"))
                ELSE LET Finish_(guarded) ==
                        IF guarded.k = "done" THEN done(guarded.data)
                        ELSE IF guarded.k = "fail" THEN Ret(fail(guarded.msg))
                        ELSE guarded.step
                IN  Finish_(Guarded(this, Advisory("VM Resize", "To resize VMs/containers"), vs,
                                Req(GuestPath(safeNode, type, safeVMID, "/config"), "PUT", Body(body)),
                                        rs))
    IN  Validated(<<validateNodeName(node), validateVMID(vmid)>>)

createSnapshot(this, node, vmid, snapname, typeArg, rs) ==
    LET Validated(vs) ==
            LET type == Default(typeArg, JStr(Lit("lxc")))
                done(result) ==
                    Ret(Lit("**Snapshot Creation Started**")
                        \o Lit("**VM ID**: ") \o vs[2].v
                        \o Lit("**Snapshot Name**: ") \o ToStr(snapname)
                        \o Lit("**Type**: ") \o toUpperCase(ToStr(type))
                        \o Lit("**Node**: ") \o vs[1].v
                        \o Lit("**Task ID**: ") \o OrNA(result))
                fail(msg) == Failure("**Failed to create snapshot**", msg, "**Common issues**")
            IN  LET Finish_(guarded) ==
                        IF guarded.k = "done" THEN done(guarded.data)
                        ELSE IF guarded.k = "fail" THEN Ret(fail(guarded.msg))
                        ELSE guarded.step
                IN  Finish_(Guarded(this, Advisory("Snapshot Creation", "To create snapshots"), vs,
                                Req(GuestPath(vs[1].v, type, vs[2].v, "/snapshot"), "POST",
                                        Body(<<Prop("snapname", snapname)>>)), rs))
    IN  Validated(<<validateNodeName(node), validateVMID(vmid)>>)

\* every entry of the remote list is shown, the entry of the running state
\* too (a plausible slip)
listSnapshotsUnfiltered(this, node, vmid, typeArg, rs) ==
    LET Validated(vs) ==
            LET SnapshotLine(snapshot) ==
                    Lit("**") \o ToStr(Get(snapshot, "name")) \o Lit("**")
                    \o (IF Truthy(Get(snapshot, "description"))
                        THEN Lit("Description: ") \o ToStr(Get(snapshot, "description")) ELSE <<>>)
                type == Default(typeArg, JStr(Lit("lxc")))
                head == Lit("**Snapshots for ") \o toUpperCase(ToStr(type)) \o Lit(" ")
                        \o vs[2].v \o Lit("**")
                none == Lit("No snapshots found.") \o Lit("**Tip**: Create a snapshot with ")
                        \o Lit("proxmox_create_snapshot_")
                        \o (IF type = JStr(Lit("lxc")) THEN Lit("lxc") ELSE Lit("vm"))
                fail(msg) == Failure("**Failed to list snapshots**", msg, "")
                done(snapshots) ==
                    IF ~Truthy(snapshots) \/ (snapshots.t = "array" /\ snapshots.items = <<>>)
                    THEN Ret(head \o none)
                    ELSE IF snapshots.t # "array" THEN Ret(fail(TypeErrorMessage))
                    ELSE LET realSnapshots == snapshots.items
                         IN  IF realSnapshots = <<>> THEN Ret(head \o none)
                             ELSE Ret(head \o Concat([i \in 1..Len(realSnapshots) |-> SnapshotLine(realSnapshots[i])])
                                      \o Lit("**Total**: ") \o NumToStr(Len(realSnapshots))
                                      \o Lit(" snapshot(s)"))
            IN  LET Finish_(guarded) ==
                        IF guarded.k = "done" THEN done(guarded.data)
                        ELSE IF guarded.k = "fail" THEN Ret(fail(guarded.msg))
                        ELSE guarded.step
                IN  Finish_(Guarded(this, Advisory("Snapshot Listing", "To list snapshots"), vs,
                                Req(GuestPath(vs[1].v, type, vs[2].v, "/snapshot"), "GET", NoBody), rs))
    IN  Validated(<<validateNodeName(node), validateVMID(vmid)>>)

listSnapshots(this, node, vmid, typeArg, rs) ==
    LET Validated(vs) ==
            LET SnapshotLine(snapshot) ==
                    Lit("**") \o ToStr(Get(snapshot, "name")) \o Lit("**")
                    \o (IF Truthy(Get(snapshot, "description"))
                        THEN Lit("Description: ") \o ToStr(Get(snapshot, "description")) ELSE <<>>)
                type == Default(typeArg, JStr(Lit("lxc")))
                head == Lit("**Snapshots for ") \o toUpperCase(ToStr(type)) \o Lit(" ")
                        \o vs[2].v \o Lit("**")
                none == Lit("No snapshots found.") \o Lit("**Tip**: Create a snapshot with ")
                        \o Lit("proxmox_create_snapshot_")
                        \o (IF type = JStr(Lit("lxc")) THEN Lit("lxc") ELSE Lit("vm"))
                fail(msg) == Failure("**Failed to list snapshots**", msg, "")
                done(snapshots) ==
                    IF ~Truthy(snapshots) \/ (snapshots.t = "array" /\ snapshots.items = <<>>)
                    THEN Ret(head \o none)
                    ELSE IF snapshots.t # "array" THEN Ret(fail(TypeErrorMessage))
                    ELSE LET realSnapshots ==
                                 SelectSeq(snapshots.items,
                                           LAMBDA snap : Get(snap, "name") # JStr(Lit("current")))
                         IN  IF realSnapshots = <<>> THEN Ret(head \o none)
                             ELSE Ret(head \o Concat([i \in 1..Len(realSnapshots) |-> SnapshotLine(realSnapshots[i])])
                                      \o Lit("**Total**: ") \o NumToStr(Len(realSnapshots))
                                      \o Lit(" snapshot(s)"))
            IN  LET Finish_(guarded) ==
                        IF guarded.k = "done" THEN done(guarded.data)
                        ELSE IF guarded.k = "fail" THEN Ret(fail(guarded.msg))
                        ELSE guarded.step
                IN  Finish_(Guarded(this, Advisory("Snapshot Listing", "To list snapshots"), vs,
                                Req(GuestPath(vs[1].v, type, vs[2].v, "/snapshot"), "GET", NoBody), rs))
    IN  Validated(<<validateNodeName(node), validateVMID(vmid)>>)

rollbackSnapshot(this, node, vmid, snapname, typeArg, rs) ==
    LET Validated(vs) ==
            LET type == Default(typeArg, JStr(Lit("lxc")))
                done(result) ==
                    Ret(Lit("**Snapshot Rollback Started**")
                        \o Lit("**VM ID**: ") \o vs[2].v
                        \o Lit("**Snapshot Name**: ") \o ToStr(snapname)
                        \o Lit("**Type**: ") \o toUpperCase(ToStr(type))
                        \o Lit("**Node**: ") \o vs[1].v
                        \o Lit("**Task ID**: ") \o OrNA(result))
                fail(msg) == Failure("**Failed to rollback snapshot**", msg, "**Common issues**")
            IN  LET Finish_(guarded) ==
                        IF guarded.k = "done" THEN done(guarded.data)
                        ELSE IF guarded.k = "fail" THEN Ret(fail(guarded.msg))
                        ELSE guarded.step
                IN  Finish_(Guarded(this, Advisory("Snapshot Rollback", "To rollback snapshots"), vs,
                                Req(GuestPath(vs[1].v, type, vs[2].v, "/snapshot/") \o ToStr(snapname)
                                        \o Lit("/rollback"), "POST", Body(<<>>)), rs))
    IN  Validated(<<validateNodeName(node), validateVMID(vmid)>>)

deleteSnapshot(this, node, vmid, snapname, typeArg, rs) ==
    LET Validated(vs) ==
            LET type == Default(typeArg, JStr(Lit("lxc")))
                done(result) ==
                    Ret(Lit("**Snapshot Deletion Started**")
                        \o Lit("**VM ID**: ") \o vs[2].v
                        \o Lit("**Snapshot Name**: ") \o ToStr(snapname)
                        \o Lit("**Type**: ") \o toUpperCase(ToStr(type))
                        \o Lit("**Node**: ") \o vs[1].v
                        \o Lit("**Task ID**: ") \o OrNA(result))
                fail(msg) == Failure("**Failed to delete snapshot**", msg, "**Common issues**")
            IN  LET Finish_(guarded) ==
                        IF guarded.k = "done" THEN done(guarded.data)
                        ELSE IF guarded.k = "fail" THEN Ret(fail(guarded.msg))
                        ELSE guarded.step
                IN  Finish_(Guarded(this, Advisory("Snapshot Deletion", "To delete snapshots"), vs,
                                Req(GuestPath(vs[1].v, type, vs[2].v, "/snapshot/") \o ToStr(snapname),
                                        "DELETE", NoBody), rs))
    IN  Validated(<<validateNodeName(node), validateVMID(vmid)>>)

createBackup(this, node, vmid, storageArg, modeArg, compressArg, typeArg, rs) ==
    LET Validated(vs) ==
            LET storage == Default(storageArg, JStr(Lit("local")))
                mode == Default(modeArg, JStr(Lit("snapshot")))
                compress == Default(compressArg, JStr(Lit("zstd")))
                type == Default(typeArg, JStr(Lit("lxc")))
                done(result) ==
                    Ret(Lit("**Backup Creation Started**")
                        \o Lit("**VM ID**: ") \o vs[2].v
                        \o Lit("**Type**: ") \o toUpperCase(ToStr(type))
                        \o Lit("**Node**: ") \o vs[1].v
                        \o Lit("**Storage**: ") \o ToStr(storage)
                        \o Lit("**Mode**: ") \o ToStr(mode)
                        \o Lit("**Compression**: ") \o ToStr(compress)
                        \o Lit("**Task ID**: ") \o OrNA(result))
                fail(msg) == Failure("**Failed to create backup**", msg, "**Common issues**")
            IN  LET Finish_(guarded) ==
                        IF guarded.k = "done" THEN done(guarded.data)
                        ELSE IF guarded.k = "fail" THEN Ret(fail(guarded.msg))
                        ELSE guarded.step
                IN  Finish_(Guarded(this, Advisory("Backup Creation", "To create backups"), vs,
                                Req(Lit("/nodes/") \o vs[1].v \o Lit("/vzdump"), "POST",
                                        Body(<<Prop("vmid", JStr(vs[2].v)), Prop("storage", storage),
                                        Prop("mode", mode), Prop("compress", compress)>>)), rs))
    IN  Validated(<<validateNodeName(node), validateVMID(vmid)>>)

listBackups(this, node, storageArg, rs) ==
    LET Validated(vs) ==
            LET \* backup.volid.split('/').pop()
                RECURSIVE FileName(_)
                FileName(volid) ==
                    IF \E i \in 1..Len(volid) : volid[i].c = "/"
                    THEN FileName(Tail(volid)) ELSE volid

                \* filename.match(/vzdump-(lxc|qemu)-(\d+)-/): the groups, or none.  The
                \* words "vzdump-lxc-" and "vzdump-qemu-" are symbols of the file names.
                BackupMatch(filename) ==
                    LET starts == {i \in 1..Len(filename) :
                                     /\ filename[i].c \in {"vzdump-lxc-", "vzdump-qemu-"}
                                     /\ \E j \in (i + 2)..Len(filename) :
                                          /\ filename[j].c = "-"
                                          /\ \A d \in (i + 1)..(j - 1) : filename[d].c \in DigitChars}
                    IN  IF starts = {} THEN [found |-> FALSE, vmType |-> Lit("UNKNOWN"),
                            vmId |-> Lit("N/A")]
                        ELSE LET i == CHOOSE x \in starts : \A y \in starts : x <= y
                                 j == CHOOSE x \in (i + 2)..Len(filename) :
                                        /\ filename[x].c = "-"
                                        /\ \A d \in (i + 1)..(x - 1) : filename[d].c \in DigitChars
                             IN  [found |-> TRUE,
                                  vmType |-> IF filename[i].c = "vzdump-lxc-" THEN Lit("LXC") ELSE Lit("QEMU"),
                                  vmId |-> SubSeq(filename, i + 1, j - 1)]

                BackupLine(backup) ==
                    LET filename == FileName(ToStr(Get(backup, "volid")))
                    IN  Lit("**") \o filename \o Lit("**")
                        \o Lit("VM ID: ") \o BackupMatch(filename).vmId
                        \o Lit(" (") \o BackupMatch(filename).vmType \o Lit(")")
                        \o Lit("Volume: ") \o ToStr(Get(backup, "volid"))

                \* backups.sort((a, b) => (b.ctime || 0) - (a.ctime || 0)): newest first, stable
                RECURSIVE SortBackups(_)
                SortBackups(bs) ==
                    IF bs = <<>> THEN <<>>
                    ELSE LET ctime(b) == IF Truthy(Get(b, "ctime")) THEN Get(b, "ctime").n ELSE 0
                             newest == CHOOSE i \in 1..Len(bs) :
                                          /\ \A j \in 1..Len(bs) : ctime(bs[j]) <= ctime(bs[i])
                                          /\ \A j \in 1..(i - 1) : ctime(bs[j]) < ctime(bs[i])
                         IN  <<bs[newest]>>
                             \o SortBackups(SubSeq(bs, 1, newest - 1) \o SubSeq(bs, newest + 1, Len(bs)))
                storage == Default(storageArg, JStr(Lit("local")))
                head == Lit("**Backups on ") \o ToStr(storage) \o Lit("**")
                fail(msg) == Failure("**Failed to list backups**", msg, "**Common issues**")
                done(backups) ==
                    IF ~Truthy(backups) \/ (backups.t = "array" /\ backups.items = <<>>)
                    THEN Ret(head \o Lit("No backups found on storage ") \o ToStr(storage))
                    ELSE IF backups.t # "array"
                            \/ \E i \in 1..Len(backups.items) :
                                  Get(backups.items[i], "volid").t # "string"
                    THEN Ret(fail(TypeErrorMessage))
                    ELSE Ret(head
                             \o (LET sorted == SortBackups(backups.items)
                                 IN  Concat([i \in 1..Len(sorted) |-> BackupLine(sorted[i])]))
                             \o Lit("**Total**: ") \o NumToStr(Len(backups.items))
                             \o Lit(" backup(s)"))
            IN  LET Finish_(guarded) ==
                        IF guarded.k = "done" THEN done(guarded.data)
                        ELSE IF guarded.k = "fail" THEN Ret(fail(guarded.msg))
                        ELSE guarded.step
                IN  Finish_(Guarded(this, Advisory("Backup Listing", "To list backups"), vs,
                                Req(Lit("/nodes/") \o vs[1].v \o Lit("/storage/") \o ToStr(storage)
                                        \o Lit("/content?content=backup"), "GET", NoBody), rs))
    IN  Validated(<<validateNodeName(node)>>)

restoreBackup(this, node, vmid, archive, storage, typeArg, rs) ==
    LET Validated(vs) ==
            LET type == Default(typeArg, JStr(Lit("lxc")))
                body == <<Prop("vmid", JStr(vs[2].v)), Prop("archive", archive),
                          Prop("restore", JNum(1))>>
                        \o (IF Truthy(storage) THEN <<Prop("storage", storage)>> ELSE <<>>)
                done(result) ==
                    Ret(Lit("**Backup Restore Started**")
                        \o Lit("**New VM ID**: ") \o vs[2].v
                        \o Lit("**Type**: ") \o toUpperCase(ToStr(type))
                        \o Lit("**Node**: ") \o vs[1].v
                        \o Lit("**Archive**: ") \o ToStr(archive)
                        \o (IF Truthy(storage) THEN Lit("**Storage**: ") \o ToStr(storage) ELSE <<>>)
                        \o Lit("**Task ID**: ") \o OrNA(result))
                fail(msg) == Failure("**Failed to restore backup**", msg, "**Common issues**")
            IN  LET Finish_(guarded) ==
                        IF guarded.k = "done" THEN done(guarded.data)
                        ELSE IF guarded.k = "fail" THEN Ret(fail(guarded.msg))
                        ELSE guarded.step
                IN  Finish_(Guarded(this, Advisory("Backup Restore", "To restore backups"), vs,
                                Req(Lit("/nodes/") \o vs[1].v \o Lit("/") \o ToStr(type), "POST",
                                        Body(body)), rs))
    IN  Validated(<<validateNodeName(node), validateVMID(vmid)>>)

\* encodeURIComponent on the symbols of a volume name: ':' and '/' are
\* escaped, letters, digits, '-', '_' and '.' are kept
encodeURIComponent(s) ==
    [i \in 1..Len(s) |->
        CASE s[i].c = ":" -> Run("%3A", s[i].n)
          [] s[i].c = "/" -> Run("%2F", s[i].n)
          [] OTHER -> s[i]]

deleteBackup(this, node, storage, volume, rs) ==
    LET Validated(vs) ==
            LET encodedVolume == encodeURIComponent(ToStr(volume))
                done(result) ==
                    Ret(Lit("**Backup Deletion Started**")
                        \o Lit("**Node**: ") \o vs[1].v
                        \o Lit("**Storage**: ") \o ToStr(storage)
                        \o Lit("**Volume**: ") \o ToStr(volume)
                        \o Lit("**Task ID**: ") \o OrNA(result))
                fail(msg) == Failure("**Failed to delete backup**", msg, "**Common issues**")
            IN  LET Finish_(guarded) ==
                        IF guarded.k = "done" THEN done(guarded.data)
                        ELSE IF guarded.k = "fail" THEN Ret(fail(guarded.msg))
                        ELSE guarded.step
                IN  Finish_(Guarded(this, Advisory("Backup Deletion", "To delete backups"), vs,
                                Req(Lit("/nodes/") \o vs[1].v \o Lit("/storage/") \o ToStr(storage)
                                        \o Lit("/content/") \o encodedVolume, "DELETE", NoBody), rs))
    IN  Validated(<<validateNodeName(node)>>)

\* The disk and network handlers that send one change of a guest of a fixed
\* family: lines is the text between the identifiers and the task id.
Change(this, advisory, node, vmid, family, rest, method, body, head, lines, failure, rs) ==
    LET Validated(vs) ==
            LET done(result) ==
                    Ret(Lit(head) \o Lit("**ID**: ") \o vs[2].v \o Lit("**Node**: ") \o vs[1].v
                        \o lines \o Lit("**Task ID**: ") \o OrNA(result))
                fail(msg) == Failure(failure, msg, "**Common issues**")
            IN  LET Finish_(guarded) ==
                        IF guarded.k = "done" THEN done(guarded.data)
                        ELSE IF guarded.k = "fail" THEN Ret(fail(guarded.msg))
                        ELSE guarded.step
                IN  Finish_(Guarded(this, advisory, vs,
                                Req(GuestPath(vs[1].v, JStr(Lit(family)), vs[2].v, rest), method,
                                        Body(body)), rs))
    IN  Validated(<<validateNodeName(node), validateVMID(vmid)>>)

addDiskVM(this, node, vmid, disk, storage, size, rs) ==
    Change(this, Advisory("Disk Management", "To add disks to VMs"), node, vmid,
           "qemu", "/config", "PUT",
           <<PropAt(ToStr(disk), JStr(ToStr(storage) \o Lit(":") \o ToStr(size)))>>,
           "**VM Disk Addition Started**",
           Lit("**Disk**: ") \o ToStr(disk) \o Lit("**Storage**: ") \o ToStr(storage)
           \o Lit("**Size**: ") \o ToStr(size) \o Lit(" GB"),
           "**Failed to add disk to VM**", rs)

addMountPointLXC(this, node, vmid, mp, storage, size, rs) ==
    Change(this, Advisory("Disk Management", "To add mount points to containers"), node, vmid,
           "lxc", "/config", "PUT",
           <<PropAt(ToStr(mp), JStr(ToStr(storage) \o Lit(":") \o ToStr(size)))>>,
           "**LXC Mount Point Addition Started**",
           Lit("**Mount Point**: ") \o ToStr(mp) \o Lit("**Storage**: ") \o ToStr(storage)
           \o Lit("**Size**: ") \o ToStr(size) \o Lit(" GB"),
           "**Failed to add mount point to container**", rs)

resizeDiskVM(this, node, vmid, disk, size, rs) ==
    Change(this, Advisory("Disk Management", "To resize VM disks"), node, vmid,
           "qemu", "/resize", "PUT", <<Prop("disk", disk), Prop("size", size)>>,
           "**VM Disk Resize Started**",
           Lit("**Disk**: ") \o ToStr(disk) \o Lit("**New Size**: ") \o ToStr(size),
           "**Failed to resize VM disk**", rs)

resizeDiskLXC(this, node, vmid, disk, size, rs) ==
    Change(this, Advisory("Disk Management", "To resize LXC disks"), node, vmid,
           "lxc", "/resize", "PUT", <<Prop("disk", disk), Prop("size", size)>>,
           "**LXC Disk Resize Started**",
           Lit("**Disk**: ") \o ToStr(disk) \o Lit("**New Size**: ") \o ToStr(size),
           "**Failed to resize LXC disk**", rs)

removeDiskVM(this, node, vmid, disk, rs) ==
    Change(this, Advisory("Disk Management", "To remove disks from VMs"), node, vmid,
           "qemu", "/config", "PUT", <<Prop("delete", disk)>>,
           "**VM Disk Removal Started**", Lit("**Disk**: ") \o ToStr(disk),
           "**Failed to remove disk from VM**", rs)

removeMountPointLXC(this, node, vmid, mp, rs) ==
    Change(this, Advisory("Disk Management", "To remove mount points from containers"),
           node, vmid, "lxc", "/config", "PUT", <<Prop("delete", mp)>>,
           "**LXC Mount Point Removal Started**", Lit("**Mount Point**: ") \o ToStr(mp),
           "**Failed to remove mount point from container**", rs)

moveDiskVM(this, node, vmid, disk, storage, deleteSourceArg, rs) ==
    LET deleteSource == Default(deleteSourceArg, JBool(TRUE))
    IN  Change(this, Advisory("Disk Management", "To move VM disks"), node, vmid,
               "qemu", "/move_disk", "POST",
               <<Prop("disk", disk), Prop("storage", storage),
                 Prop("delete", JNum(IF Truthy(deleteSource) THEN 1 ELSE 0))>>,
               "**VM Disk Move Started**",
               Lit("**Disk**: ") \o ToStr(disk)
               \o Lit("**Target Storage**: ") \o ToStr(storage)
               \o Lit("**Delete Source**: ")
               \o (IF Truthy(deleteSource) THEN Lit("Yes") ELSE Lit("No")),
               "**Failed to move VM disk**", rs)

moveDiskLXC(this, node, vmid, disk, storage, deleteSourceArg, rs) ==
    LET deleteSource == Default(deleteSourceArg, JBool(TRUE))
    IN  Change(this, Advisory("Disk Management", "To move LXC disks"), node, vmid,
               "lxc", "/move_volume", "POST",
               <<Prop("volume", disk), Prop("storage", storage),
                 Prop("delete", JNum(IF Truthy(deleteSource) THEN 1 ELSE 0))>>,
               "**LXC Disk Move Started**",
               Lit("**Volume**: ") \o ToStr(disk)
               \o Lit("**Target Storage**: ") \o ToStr(storage)
               \o Lit("**Delete Source**: ")
               \o (IF Truthy(deleteSource) THEN Lit("Yes") ELSE Lit("No")),
               "**Failed to move LXC volume**", rs)

\* a TypeError thrown where a validator outcome is expected
TypeErrorThrown == [ok |-> FALSE, v |-> <<>>, err |-> TypeErrorMessage]

\* key=value, as the configuration strings of the remote write it
KeyValue(key, value) == key \o Lit("=") \o value

addNetworkVM(this, node, vmid, net, bridge, modelArg, macaddr, vlan, firewall, rs) ==
    LET Validated(vs) ==
            LET model == Or(Default(modelArg, JStr(Lit("virtio"))), JStr(Lit("virtio")))
                netConfig == ToStr(model) \o Lit(",") \o KeyValue(Lit("bridge"), ToStr(bridge))
                             \o (IF Truthy(macaddr)
                                 THEN Lit(",") \o KeyValue(Lit("macaddr"), ToStr(macaddr)) ELSE <<>>)
                             \o (IF ~Nullish(vlan)
                                 THEN Lit(",") \o KeyValue(Lit("tag"), ToStr(vlan)) ELSE <<>>)
                             \o (IF Truthy(firewall)
                                 THEN Lit(",") \o KeyValue(Lit("firewall"), Lit("1")) ELSE <<>>)
                done(result) ==
                    Ret(Lit("**VM Network Interface Added**")
                        \o Lit("**VM ID**: ") \o vs[2].v \o Lit("**Node**: ") \o vs[1].v
                        \o Lit("**Interface**: ") \o ToStr(net)
                        \o Lit("**Bridge**: ") \o ToStr(bridge)
                        \o Lit("**Model**: ") \o ToStr(model))
                fail(msg) == Failure("**Failed to add VM network interface**", msg, "**Common issues**")
            IN  LET Finish_(guarded) ==
                        IF guarded.k = "done" THEN done(guarded.data)
                        ELSE IF guarded.k = "fail" THEN Ret(fail(guarded.msg))
                        ELSE guarded.step
                IN  Finish_(Guarded(this, Advisory("Network Management",
                    "To add VM network interfaces"), vs,
                                Req(GuestPath(vs[1].v, JStr(Lit("qemu")), vs[2].v, "/config"), "PUT",
                                        Body(<<PropAt(ToStr(net), JStr(netConfig))>>)), rs))
    IN  Validated(<<validateNodeName(node), validateVMID(vmid)>>)

addNetworkLXC(this, node, vmid, net, bridge, ip, gw, firewall, rs) ==
    LET \* s.replace(word, ''): the first occurrence of the symbol word is removed
        ReplaceFirst(s, word) ==
            IF \A i \in 1..Len(s) : s[i].c # word THEN s
            ELSE LET i == CHOOSE x \in 1..Len(s) : s[x].c = word /\ \A y \in 1..(x - 1) : s[y].c # word
                 IN  SubSeq(s, 1, i - 1)
                     \o (IF s[i].n = 1 THEN <<>> ELSE <<Run(word, s[i].n - 1)>>)
                     \o SubSeq(s, i + 1, Len(s))
        Validated(vs) ==
            LET netNum == vs[3].v
                netConfig == KeyValue(Lit("name"), Lit("eth") \o netNum)
                             \o Lit(",") \o KeyValue(Lit("bridge"), ToStr(bridge))
                             \o (IF Truthy(ip) THEN Lit(",") \o KeyValue(Lit("ip"), ToStr(ip)) ELSE <<>>)
                             \o (IF Truthy(gw) THEN Lit(",") \o KeyValue(Lit("gw"), ToStr(gw)) ELSE <<>>)
                             \o (IF Truthy(firewall)
                                 THEN Lit(",") \o KeyValue(Lit("firewall"), Lit("1")) ELSE <<>>)
                done(result) ==
                    Ret(Lit("**LXC Network Interface Added**")
                        \o Lit("**Container ID**: ") \o vs[2].v \o Lit("**Node**: ") \o vs[1].v
                        \o Lit("**Interface**: ") \o ToStr(net) \o Lit(" (eth") \o netNum \o Lit(")")
                        \o Lit("**Bridge**: ") \o ToStr(bridge))
                fail(msg) == Failure("**Failed to add LXC network interface**", msg, "**Common issues**")
            IN  LET Finish_(guarded) ==
                        IF guarded.k = "done" THEN done(guarded.data)
                        ELSE IF guarded.k = "fail" THEN Ret(fail(guarded.msg))
                        ELSE guarded.step
                IN  Finish_(Guarded(this, Advisory("Network Management",
                    "To add LXC network interfaces"), vs,
                                Req(GuestPath(vs[1].v, JStr(Lit("lxc")), vs[2].v, "/config"), "PUT",
                                        Body(<<PropAt(ToStr(net), JStr(netConfig))>>)), rs))
    IN  Validated(<<validateNodeName(node), validateVMID(vmid),
                    IF net.t = "string" THEN Valid(ReplaceFirst(net.s, "net"))
                    ELSE TypeErrorThrown>>)

\* s.split(sep) for a separator of one character
RECURSIVE Split(_, _)
Split(s, sep) ==
    IF \A i \in 1..Len(s) : s[i].c # sep THEN <<s>>
    ELSE LET i == CHOOSE x \in 1..Len(s) : s[x].c = sep /\ \A y \in 1..(x - 1) : s[y].c # sep
         IN  <<SubSeq(s, 1, i - 1)>>
             \o Split((IF s[i].n = 1 THEN <<>> ELSE <<Run(sep, s[i].n - 1)>>)
                      \o SubSeq(s, i + 1, Len(s)), sep)

\* configParts[key] = value: a new key is added last, a known one keeps its place
SetPart(parts, key, value) ==
    IF \E i \in 1..Len(parts) : parts[i].k = Norm(key)
    THEN [i \in 1..Len(parts) |->
            IF parts[i].k = Norm(key) THEN PropAt(key, value) ELSE parts[i]]
    ELSE Append(parts, PropAt(key, value))

\* delete configParts[key]
DeletePart(parts, key) == SelectSeq(parts, LAMBDA part : part.k # Norm(key))

\* currentConfig.split(',').forEach(part => { [key, value] = part.split('='); ... })
RECURSIVE ParseParts(_, _)
ParseParts(pieces, parts) ==
    IF pieces = <<>> THEN parts
    ELSE LET kv == Split(Head(pieces), "=")
         IN  ParseParts(Tail(pieces),
                        SetPart(parts, kv[1],
                                IF Len(kv) > 1 THEN JStr(kv[2]) ELSE JUndefined))

\* parts.join(','), of strings
RECURSIVE JoinParts(_)
JoinParts(parts) ==
    IF parts = <<>> THEN <<>>
    ELSE Head(parts) \o (IF Len(parts) > 1 THEN Lit(",") ELSE <<>>) \o JoinParts(Tail(parts))

\* The two calls of an interface update: read the configuration, write the
\* merged interface.  merged is the new configuration string, made of the
\* configuration read.
\* the whole configuration read is written back, the interface replaced (a
\* plausible slip)
UpdateWholesale(this, advisory, node, vmid, family, net, merged, head, failure, rs) ==
    LET Validated(vs) ==
            LET path == GuestPath(vs[1].v, JStr(Lit(family)), vs[2].v, "/config")
                fail(msg) == Ret(Failure(failure, msg, "**Common issues**"))
            IN  IF ~this.allowElevated THEN Ret(advisory)
                ELSE IF ~AllValid(vs) THEN fail(FirstInvalid(vs).err)
                ELSE IF rs = <<>> THEN Req(path, "GET", NoBody)
                ELSE IF ~rs[1].ok THEN fail(rs[1].err)
                ELSE IF Nullish(rs[1].data) THEN fail(TypeErrorMessage)
                ELSE LET config == rs[1].data
                         currentConfig == GetAt(config, ToStr(net))
                     IN  IF ~Truthy(currentConfig)
                         THEN Ret(Lit("**Network interface ") \o ToStr(net) \o Lit(" does not exist**")
                                  \o Lit("Please add the interface first"))
                         ELSE IF currentConfig.t # "string" THEN fail(TypeErrorMessage)
                         ELSE IF Len(rs) = 1
                         THEN Req(path, "PUT",
                                  Body(SetPart(config.items, ToStr(net), JStr(merged))))
                         ELSE IF ~rs[2].ok THEN fail(rs[2].err)
                         ELSE Ret(Lit(head) \o Lit("**ID**: ") \o vs[2].v
                                  \o Lit("**Node**: ") \o vs[1].v
                                  \o Lit("**Interface**: ") \o ToStr(net)
                                  \o Lit("**New Configuration**: ") \o merged)
    IN  Validated(<<validateNodeName(node), validateVMID(vmid)>>)

Update(this, advisory, node, vmid, family, net, merged, head, failure, rs) ==
    LET Validated(vs) ==
            LET path == GuestPath(vs[1].v, JStr(Lit(family)), vs[2].v, "/config")
                fail(msg) == Ret(Failure(failure, msg, "**Common issues**"))
            IN  IF ~this.allowElevated THEN Ret(advisory)
                ELSE IF ~AllValid(vs) THEN fail(FirstInvalid(vs).err)
                ELSE IF rs = <<>> THEN Req(path, "GET", NoBody)
                ELSE IF ~rs[1].ok THEN fail(rs[1].err)
                ELSE IF Nullish(rs[1].data) THEN fail(TypeErrorMessage)
                ELSE LET config == rs[1].data
                         currentConfig == GetAt(config, ToStr(net))
                     IN  IF ~Truthy(currentConfig)
                         THEN Ret(Lit("**Network interface ") \o ToStr(net) \o Lit(" does not exist**")
                                  \o Lit("Please add the interface first"))
                         ELSE IF currentConfig.t # "string" THEN fail(TypeErrorMessage)
                         ELSE IF Len(rs) = 1
                         THEN Req(path, "PUT",
                                  Body(<<PropAt(ToStr(net), JStr(merged))>>))
                         ELSE IF ~rs[2].ok THEN fail(rs[2].err)
                         ELSE Ret(Lit(head) \o Lit("**ID**: ") \o vs[2].v
                                  \o Lit("**Node**: ") \o vs[1].v
                                  \o Lit("**Interface**: ") \o ToStr(net)
                                  \o Lit("**New Configuration**: ") \o merged)
    IN  Validated(<<validateNodeName(node), validateVMID(vmid)>>)

updateNetworkVM(this, node, vmid, net, bridge, model, macaddr, vlan, firewall, rs) ==
    LET \* a key that looks like a hardware address: /^[0-9A-F]{2}:/i.  A hardware
        \* address is one symbol of the strings.
        MacAddresses == {"52:54:00:12:34:56", "AA:BB:CC:DD:EE:FF"}

        ModelNames == {"virtio", "e1000", "rtl8139", "vmxnet3"}

        \* configParts[key]
        PartAt(parts, key) ==
            IF \E i \in 1..Len(parts) : parts[i].k = Norm(key)
            THEN parts[CHOOSE i \in 1..Len(parts) : parts[i].k = Norm(key)].v
            ELSE JUndefined
        \* the hardware address the model keeps: macaddr, or the first key that
        \* looks like one
        Mac(parts) ==
            LET macKeys == {i \in 1..Len(parts) :
                              parts[i].k # <<>> /\ parts[i].k[1].c \in MacAddresses}
            IN  Or(PartAt(parts, Lit("macaddr")),
                   IF macKeys = {} THEN PartAt(parts, Lit("undefined"))
                   ELSE parts[CHOOSE i \in macKeys : \A j \in macKeys : i <= j].v)
        WithModel(parts) ==
            IF model.t = "undefined" THEN parts
            ELSE SelectSeq(SetPart(parts, ToStr(model), Or(Mac(parts), JStr(<<>>))),
                           LAMBDA part : \/ part.k = Norm(ToStr(model))
                                         \/ ~\E m \in ModelNames : part.k = Lit(m))
        WithBridge(parts) ==
            IF bridge.t = "undefined" THEN parts ELSE SetPart(parts, Lit("bridge"), bridge)
        WithMac(parts) ==
            IF macaddr.t = "undefined" THEN parts ELSE SetPart(parts, Lit("macaddr"), macaddr)
        WithTag(parts) ==
            IF ~Nullish(vlan) THEN SetPart(parts, Lit("tag"), vlan)
            ELSE IF vlan.t = "null" THEN DeletePart(parts, Lit("tag")) ELSE parts
        WithFirewall(parts) ==
            IF firewall.t = "undefined" THEN parts
            ELSE IF Truthy(firewall) THEN SetPart(parts, Lit("firewall"), JStr(Lit("1")))
            ELSE DeletePart(parts, Lit("firewall"))
        entry(part) == IF Truthy(part.v) THEN KeyValue(part.k, ToStr(part.v))
                       ELSE part.k
        Joined(parts) == JoinParts([i \in 1..Len(parts) |-> entry(parts[i])])
        merge(currentConfig) ==
            Joined(WithFirewall(WithTag(WithMac(WithBridge(WithModel(
                ParseParts(Split(currentConfig, ","), <<>>)))))))
    IN  Update(this, Advisory("Network Management", "To update VM network interfaces"),
               node, vmid, "qemu", net,
               (LET current == IF rs # <<>> /\ rs[1].ok
                               THEN GetAt(rs[1].data, ToStr(net)) ELSE JUndefined
                IN  IF current.t = "string" THEN merge(current.s) ELSE <<>>),
               "**VM Network Interface Updated**",
               "**Failed to update VM network interface**", rs)

updateNetworkLXC(this, node, vmid, net, bridge, ip, gw, firewall, rs) ==
    LET WithBridge(parts) ==
            IF bridge.t = "undefined" THEN parts ELSE SetPart(parts, Lit("bridge"), bridge)
        WithIp(parts) == IF ip.t = "undefined" THEN parts ELSE SetPart(parts, Lit("ip"), ip)
        WithGw(parts) == IF gw.t = "undefined" THEN parts ELSE SetPart(parts, Lit("gw"), gw)
        WithFirewall(parts) ==
            IF firewall.t = "undefined" THEN parts
            ELSE IF Truthy(firewall) THEN SetPart(parts, Lit("firewall"), JStr(Lit("1")))
            ELSE DeletePart(parts, Lit("firewall"))
        entry(part) == KeyValue(part.k, ToStr(part.v))
        Joined(parts) == JoinParts([i \in 1..Len(parts) |-> entry(parts[i])])
        merge(currentConfig) ==
            Joined(WithFirewall(WithGw(WithIp(WithBridge(
                ParseParts(Split(currentConfig, ","), <<>>))))))
    IN  Update(this, Advisory("Network Management", "To update LXC network interfaces"),
               node, vmid, "lxc", net,
               (LET current == IF rs # <<>> /\ rs[1].ok
                               THEN GetAt(rs[1].data, ToStr(net)) ELSE JUndefined
                IN  IF current.t = "string" THEN merge(current.s) ELSE <<>>),
               "**LXC Network Interface Updated**",
               "**Failed to update LXC network interface**", rs)

\* the network removals show no task id
Removal(this, advisory, node, vmid, family, net, head, failure, rs) ==
    LET Validated(vs) ==
            LET done(result) ==
                    Ret(Lit(head) \o Lit("**ID**: ") \o vs[2].v \o Lit("**Node**: ") \o vs[1].v
                        \o Lit("**Interface Removed**: ") \o ToStr(net))
                fail(msg) == Failure(failure, msg, "**Common issues**")
            IN  LET Finish_(guarded) ==
                        IF guarded.k = "done" THEN done(guarded.data)
                        ELSE IF guarded.k = "fail" THEN Ret(fail(guarded.msg))
                        ELSE guarded.step
                IN  Finish_(Guarded(this, advisory, vs,
                                Req(GuestPath(vs[1].v, JStr(Lit(family)), vs[2].v, "/config"), "PUT",
                                        Body(<<Prop("delete", net)>>)), rs))
    IN  Validated(<<validateNodeName(node), validateVMID(vmid)>>)

removeNetworkVM(this, node, vmid, net, rs) ==
    Removal(this, Advisory("Network Management", "To remove VM network interfaces"),
            node, vmid, "qemu", net, "**VM Network Interface Removed**",
            "**Failed to remove VM network interface**", rs)

removeNetworkLXC(this, node, vmid, net, rs) ==
    Removal(this, Advisory("Network Management", "To remove LXC network interfaces"),
            node, vmid, "lxc", net, "**LXC Network Interface Removed**",
            "**Failed to remove LXC network interface**", rs)

-----------------------------------------------------------------------------
(* Tool modules of the modular server (tools/node, tools/vm, tools/storage,  *)
(* tools/cluster): a handler takes the arguments object.                     *)

\* JSON.stringify(v, null, 2) of a defined value (white space left out)
RECURSIVE JSONstringify(_)
JSONstringify(v) ==
    LET item(x) == JSONstringify(x)
        member(prop) == Lit("\"") \o prop.k \o Lit("\"") \o Lit(":") \o JSONstringify(prop.v)
        defined == SelectSeq(v.items, LAMBDA prop : prop.v.t # "undefined")
    IN  CASE v.t = "string" -> Lit("\"") \o v.s \o Lit("\"")
          [] v.t = "array" -> Lit("[")
                  \o JoinParts([i \in 1..Len(v.items) |-> item(v.items[i])]) \o Lit("]")
          [] v.t = "object" -> Lit("{")
                  \o JoinParts([i \in 1..Len(defined) |-> member(defined[i])]) \o Lit("}")
          [] OTHER -> ToStr(v)

\* { content: [{ type: 'text', text: JSON.stringify(v, null, 2) }] }:
\* JSON.stringify(undefined) is undefined, and the item has no text then
RetJSON(v) ==
    IF v.t = "undefined"
    THEN [k |-> "ret", req |-> NoRequest, text |-> <<>>, hasText |-> FALSE,
          isError |-> FALSE]
    ELSE Ret(JSONstringify(v))

nodeTools_getNodes(args, rs) ==
    IF rs = <<>> THEN Req(Lit("/nodes"), "GET", NoBody)
    ELSE IF ~rs[1].ok THEN Throw(rs[1].err)
    ELSE RetJSON(rs[1].data)

nodeTools_getNodeStatus(args, rs) ==
    IF Nullish(args) THEN Throw(TypeErrorMessage)  \* args.node of undefined
    ELSE IF rs = <<>>
    THEN Req(Lit("/nodes/") \o ToStr(Get(args, "node")) \o Lit("/status"), "GET", NoBody)
    ELSE IF ~rs[1].ok THEN Throw(rs[1].err)
    ELSE RetJSON(rs[1].data)

\* { ...vm, type, node } and { ...storage, node } as objects
Spread(o, extra) ==
    LET RECURSIVE Over(_, _)
        Over(props, more) ==
            IF more = <<>> THEN props
            ELSE Over(SetPart(props, Head(more).k, Head(more).v), Tail(more))
    IN  JObject(Over(o.items, extra))

vmTools_getVms(args, rs) ==
    IF Nullish(args) THEN Throw(TypeErrorMessage)  \* args.node of undefined
    ELSE LET typeFilter == Or(Get(args, "type"), JStr(Lit("all")))
             filtered == Truthy(Get(args, "node"))
             lead == IF filtered THEN 0 ELSE 1
             nodes == IF filtered THEN <<JObject(<<Prop("node", Get(args, "node"))>>)>>
                      ELSE rs[1].data.items
             subs == SubSeq(rs, lead + 1, Len(rs))
             object(e) == <<Spread(e.vm, <<Prop("type", JStr(Lit(e.type))),
                                           Prop("node", e.node)>>)>>
         IN  IF ~filtered /\ rs = <<>> THEN Req(Lit("/nodes"), "GET", NoBody)
             ELSE IF ~filtered /\ ~rs[1].ok THEN Throw(rs[1].err)
             ELSE IF ~filtered /\ rs[1].data.t # "array" THEN Throw(TypeErrorMessage)
             ELSE IF FirstBad(subs) # 0 THEN ThrowOf(subs[FirstBad(subs)])
             ELSE IF Len(subs) < Len(VMPlan(nodes, typeFilter))
             THEN LET p == VMPlan(nodes, typeFilter)[Len(subs) + 1]
                  IN  Req(Lit("/nodes/") \o ToStr(p.node) \o FamilyPath(p.type), "GET", NoBody)
             ELSE LET found == CollectVMs(VMPlan(nodes, typeFilter), subs, FALSE)
                  IN  RetJSON(JArray(Concat([i \in 1..Len(found) |-> object(found[i])])))

vmTools_getVmStatus(args, rs) ==
    IF Nullish(args) THEN Throw(TypeErrorMessage)  \* args.node of undefined
    ELSE IF rs = <<>>
    THEN Req(Lit("/nodes/") \o ToStr(Get(args, "node")) \o Lit("/")
             \o ToStr(Or(Get(args, "type"), JStr(Lit("qemu")))) \o Lit("/")
             \o ToStr(Get(args, "vmid")) \o Lit("/status/current"), "GET", NoBody)
    ELSE IF ~rs[1].ok THEN Throw(rs[1].err)
    ELSE RetJSON(rs[1].data)

vmTools_executeVmCommand(args, rs) ==
    IF Nullish(args) THEN Throw(TypeErrorMessage)  \* args.node of undefined
    ELSE IF rs = <<>>
    THEN Req(Lit("/nodes/") \o ToStr(Get(args, "node")) \o Lit("/")
             \o ToStr(Or(Get(args, "type"), JStr(Lit("qemu")))) \o Lit("/")
             \o ToStr(Get(args, "vmid")) \o Lit("/agent/exec"), "POST",
             Body(<<Prop("command", Get(args, "command"))>>))
    ELSE IF ~rs[1].ok THEN Throw(rs[1].err)
    ELSE RetJSON(rs[1].data)

storageTools_getStorage(args, rs) ==
    IF Nullish(args) THEN Throw(TypeErrorMessage)  \* args.node of undefined
    ELSE LET filtered == Truthy(Get(args, "node"))
             lead == IF filtered THEN 0 ELSE 1
             nodes == IF filtered THEN <<JObject(<<Prop("node", Get(args, "node"))>>)>>
                      ELSE rs[1].data.items
             subs == SubSeq(rs, lead + 1, Len(rs))
             object(e) == <<Spread(e.storage, <<Prop("node", e.node)>>)>>
         IN  IF ~filtered /\ rs = <<>> THEN Req(Lit("/nodes"), "GET", NoBody)
             ELSE IF ~filtered /\ ~rs[1].ok THEN Throw(rs[1].err)
             ELSE IF ~filtered /\ rs[1].data.t # "array" THEN Throw(TypeErrorMessage)
             ELSE IF FirstBad(subs) # 0 THEN ThrowOf(subs[FirstBad(subs)])
             ELSE IF Len(subs) < Len(nodes)
             THEN Req(Lit("/nodes/") \o ToStr(Get(nodes[Len(subs) + 1], "node"))
                      \o Lit("/storage"), "GET", NoBody)
             ELSE LET found == CollectStorages(nodes, subs)
                  IN  RetJSON(JArray(Concat([i \in 1..Len(found) |-> object(found[i])])))

clusterTools_getClusterStatus(args, rs) ==
    IF rs = <<>> THEN Req(Lit("/cluster/status"), "GET", NoBody)
    ELSE IF ~rs[1].ok THEN Throw(rs[1].err)
    ELSE RetJSON(rs[1].data)

-----------------------------------------------------------------------------
(* The call-tool handlers: index.js (flat) and dist/server.js (modular) *)

\* the names of the switch
FlatTools ==
    {"proxmox_get_nodes", "proxmox_get_node_status", "proxmox_get_vms",
     "proxmox_get_vm_status", "proxmox_execute_vm_command", "proxmox_get_storage",
     "proxmox_get_cluster_status", "proxmox_list_templates", "proxmox_create_lxc",
     "proxmox_create_vm", "proxmox_get_next_vmid", "proxmox_start_lxc", "proxmox_start_vm",
     "proxmox_stop_lxc", "proxmox_stop_vm", "proxmox_delete_lxc", "proxmox_delete_vm",
     "proxmox_reboot_lxc", "proxmox_reboot_vm", "proxmox_shutdown_lxc",
     "proxmox_shutdown_vm", "proxmox_pause_vm", "proxmox_resume_vm", "proxmox_clone_lxc",
     "proxmox_clone_vm", "proxmox_resize_lxc", "proxmox_resize_vm",
     "proxmox_create_snapshot_lxc", "proxmox_create_snapshot_vm",
     "proxmox_list_snapshots_lxc", "proxmox_list_snapshots_vm",
     "proxmox_rollback_snapshot_lxc", "proxmox_rollback_snapshot_vm",
     "proxmox_delete_snapshot_lxc", "proxmox_delete_snapshot_vm",
     "proxmox_create_backup_lxc", "proxmox_create_backup_vm", "proxmox_list_backups",
     "proxmox_restore_backup_lxc", "proxmox_restore_backup_vm", "proxmox_delete_backup",
     "proxmox_add_disk_vm", "proxmox_add_mountpoint_lxc", "proxmox_resize_disk_vm",
     "proxmox_resize_disk_lxc", "proxmox_remove_disk_vm", "proxmox_remove_mountpoint_lxc",
     "proxmox_move_disk_vm", "proxmox_move_disk_lxc", "proxmox_add_network_vm",
     "proxmox_add_network_lxc", "proxmox_update_network_vm", "proxmox_update_network_lxc",
     "proxmox_remove_network_vm", "proxmox_remove_network_lxc"}

\* switch (name) { case ...: return await this.handler(args.node, ...) }
ToolSwitch(this, toolName, args, rs) ==
    LET \* the cases of the switch whose call reads no property of args
        NoArgsRead == {"proxmox_get_nodes", "proxmox_get_cluster_status", "proxmox_create_lxc",
                       "proxmox_create_vm", "proxmox_get_next_vmid"}
        lxc == JStr(Lit("lxc"))
        qemu == JStr(Lit("qemu"))
        a(k) == Get(args, k)
        node == a("node")
        vmid == a("vmid")
        n == toolName
    IN  IF n \in FlatTools \ NoArgsRead /\ Nullish(args)
        THEN Throw(TypeErrorMessage)  \* args.node of undefined
        ELSE
        CASE n = "proxmox_get_nodes" -> getNodes(this, rs)
          [] n = "proxmox_get_cluster_status" -> getClusterStatus(this, rs)
          [] n = "proxmox_create_lxc" -> createLXCContainer(this, args, rs)
          [] n = "proxmox_create_vm" -> createVM(this, args, rs)
          [] n = "proxmox_get_next_vmid" -> getNextVMID(this, rs)
          [] n = "proxmox_get_node_status" -> getNodeStatus(this, node, rs)
          [] n = "proxmox_get_vms" -> getVMs(this, node, a("type"), rs)
          [] n = "proxmox_get_vm_status" -> getVMStatus(this, node, vmid, a("type"), rs)
          [] n = "proxmox_execute_vm_command" ->
                executeVMCommand(this, node, vmid, a("command"), a("type"), rs)
          [] n = "proxmox_get_storage" -> getStorage(this, node, rs)
          [] n = "proxmox_list_templates" -> listTemplates(this, node, a("storage"), rs)
          [] n = "proxmox_start_lxc" -> startVM(this, node, vmid, lxc, rs)
          [] n = "proxmox_start_vm" -> startVM(this, node, vmid, qemu, rs)
          [] n = "proxmox_stop_lxc" -> stopVM(this, node, vmid, lxc, rs)
          [] n = "proxmox_stop_vm" -> stopVM(this, node, vmid, qemu, rs)
          [] n = "proxmox_delete_lxc" -> deleteVM(this, node, vmid, lxc, rs)
          [] n = "proxmox_delete_vm" -> deleteVM(this, node, vmid, qemu, rs)
          [] n = "proxmox_reboot_lxc" -> rebootVM(this, node, vmid, lxc, rs)
          [] n = "proxmox_reboot_vm" -> rebootVM(this, node, vmid, qemu, rs)
          [] n = "proxmox_shutdown_lxc" -> shutdownVM(this, node, vmid, lxc, rs)
          [] n = "proxmox_shutdown_vm" -> shutdownVM(this, node, vmid, qemu, rs)
          [] n = "proxmox_pause_vm" -> pauseVM(this, node, vmid, rs)
          [] n = "proxmox_resume_vm" -> resumeVM(this, node, vmid, rs)
          [] n = "proxmox_clone_lxc" ->
                cloneVM(this, node, vmid, a("newid"), a("hostname"), lxc, rs)
          [] n = "proxmox_clone_vm" ->
                cloneVM(this, node, vmid, a("newid"), a("name"), qemu, rs)
          [] n = "proxmox_resize_lxc" ->
                resizeVM(this, node, vmid, a("memory"), a("cores"), lxc, rs)
          [] n = "proxmox_resize_vm" ->
                resizeVM(this, node, vmid, a("memory"), a("cores"), qemu, rs)
          [] n = "proxmox_create_snapshot_lxc" ->
                createSnapshot(this, node, vmid, a("snapname"), lxc, rs)
          [] n = "proxmox_create_snapshot_vm" ->
                createSnapshot(this, node, vmid, a("snapname"), qemu, rs)
          [] n = "proxmox_list_snapshots_lxc" -> listSnapshots(this, node, vmid, lxc, rs)
          [] n = "proxmox_list_snapshots_vm" -> listSnapshots(this, node, vmid, qemu, rs)
          [] n = "proxmox_rollback_snapshot_lxc" ->
                rollbackSnapshot(this, node, vmid, a("snapname"), lxc, rs)
          [] n = "proxmox_rollback_snapshot_vm" ->
                rollbackSnapshot(this, node, vmid, a("snapname"), qemu, rs)
          [] n = "proxmox_delete_snapshot_lxc" ->
                deleteSnapshot(this, node, vmid, a("snapname"), lxc, rs)
          [] n = "proxmox_delete_snapshot_vm" ->
                deleteSnapshot(this, node, vmid, a("snapname"), qemu, rs)
          [] n = "proxmox_create_backup_lxc" ->
                createBackup(this, node, vmid, a("storage"), a("mode"), a("compress"), lxc, rs)
          [] n = "proxmox_create_backup_vm" ->
                createBackup(this, node, vmid, a("storage"), a("mode"), a("compress"), qemu, rs)
          [] n = "proxmox_list_backups" -> listBackups(this, node, a("storage"), rs)
          [] n = "proxmox_restore_backup_lxc" ->
                restoreBackup(this, node, vmid, a("archive"), a("storage"), lxc, rs)
          [] n = "proxmox_restore_backup_vm" ->
                restoreBackup(this, node, vmid, a("archive"), a("storage"), qemu, rs)
          [] n = "proxmox_delete_backup" ->
                deleteBackup(this, node, a("storage"), a("volume"), rs)
          [] n = "proxmox_add_disk_vm" ->
                addDiskVM(this, node, vmid, a("disk"), a("storage"), a("size"), rs)
          [] n = "proxmox_add_mountpoint_lxc" ->
                addMountPointLXC(this, node, vmid, a("mp"), a("storage"), a("size"), rs)
          [] n = "proxmox_resize_disk_vm" ->
                resizeDiskVM(this, node, vmid, a("disk"), a("size"), rs)
          [] n = "proxmox_resize_disk_lxc" ->
                resizeDiskLXC(this, node, vmid, a("disk"), a("size"), rs)
          [] n = "proxmox_remove_disk_vm" -> removeDiskVM(this, node, vmid, a("disk"), rs)
          [] n = "proxmox_remove_mountpoint_lxc" ->
                removeMountPointLXC(this, node, vmid, a("mp"), rs)
          [] n = "proxmox_move_disk_vm" ->
                moveDiskVM(this, node, vmid, a("disk"), a("storage"), a("delete"), rs)
          [] n = "proxmox_move_disk_lxc" ->
                moveDiskLXC(this, node, vmid, a("disk"), a("storage"), a("delete"), rs)
          [] n = "proxmox_add_network_vm" ->
                addNetworkVM(this, node, vmid, a("net"), a("bridge"), a("model"),
                             a("macaddr"), a("vlan"), a("firewall"), rs)
          [] n = "proxmox_add_network_lxc" ->
                addNetworkLXC(this, node, vmid, a("net"), a("bridge"), a("ip"), a("gw"),
                              a("firewall"), rs)
          [] n = "proxmox_update_network_vm" ->
                updateNetworkVM(this, node, vmid, a("net"), a("bridge"), a("model"),
                                a("macaddr"), a("vlan"), a("firewall"), rs)
          [] n = "proxmox_update_network_lxc" ->
                updateNetworkLXC(this, node, vmid, a("net"), a("bridge"), a("ip"), a("gw"),
                                 a("firewall"), rs)
          [] n = "proxmox_remove_network_vm" -> removeNetworkVM(this, node, vmid, a("net"), rs)
          [] n = "proxmox_remove_network_lxc" ->
                removeNetworkLXC(this, node, vmid, a("net"), rs)
          [] OTHER -> Throw(Lit("Unknown tool: ") \o Lit(n))

\* an unknown name falls through to the last module's tool (a plausible slip)
getToolLenient(toolName, args, rs) ==
    CASE toolName = "get_nodes" -> nodeTools_getNodes(args, rs)
      [] toolName = "get_node_status" -> nodeTools_getNodeStatus(args, rs)
      [] toolName = "get_vms" -> vmTools_getVms(args, rs)
      [] toolName = "get_vm_status" -> vmTools_getVmStatus(args, rs)
      [] toolName = "execute_vm_command" -> vmTools_executeVmCommand(args, rs)
      [] toolName = "get_storage" -> storageTools_getStorage(args, rs)
      [] OTHER -> clusterTools_getClusterStatus(args, rs)

\* nodeTools.getTool(name), vmTools.getTool(name), storageTools.getTool(name),
\* clusterTools.getTool(name), in this order; then the throw
getTool(toolName, args, rs) ==
    CASE toolName = "get_nodes" -> nodeTools_getNodes(args, rs)
      [] toolName = "get_node_status" -> nodeTools_getNodeStatus(args, rs)
      [] toolName = "get_vms" -> vmTools_getVms(args, rs)
      [] toolName = "get_vm_status" -> vmTools_getVmStatus(args, rs)
      [] toolName = "execute_vm_command" -> vmTools_executeVmCommand(args, rs)
      [] toolName = "get_storage" -> storageTools_getStorage(args, rs)
      [] toolName = "get_cluster_status" -> clusterTools_getClusterStatus(args, rs)
      [] OTHER -> Throw(Lit("Unknown tool: ") \o Lit(toolName))

\* the tools array without its last tool, which the switch still routes (a
\* plausible slip)
listToolsIncomplete ==
    <<"proxmox_get_nodes", "proxmox_get_node_status", "proxmox_get_vms",
      "proxmox_get_vm_status", "proxmox_execute_vm_command", "proxmox_get_storage",
      "proxmox_get_cluster_status", "proxmox_list_templates", "proxmox_create_lxc",
      "proxmox_create_vm", "proxmox_get_next_vmid", "proxmox_start_lxc",
      "proxmox_start_vm", "proxmox_stop_lxc", "proxmox_stop_vm", "proxmox_delete_lxc",
      "proxmox_delete_vm", "proxmox_reboot_lxc", "proxmox_reboot_vm",
      "proxmox_shutdown_lxc", "proxmox_shutdown_vm", "proxmox_pause_vm",
      "proxmox_resume_vm", "proxmox_clone_lxc", "proxmox_clone_vm",
      "proxmox_resize_lxc", "proxmox_resize_vm", "proxmox_create_snapshot_lxc",
      "proxmox_create_snapshot_vm", "proxmox_list_snapshots_lxc",
      "proxmox_list_snapshots_vm", "proxmox_rollback_snapshot_lxc",
      "proxmox_rollback_snapshot_vm", "proxmox_delete_snapshot_lxc",
      "proxmox_delete_snapshot_vm", "proxmox_create_backup_lxc",
      "proxmox_create_backup_vm", "proxmox_list_backups", "proxmox_restore_backup_lxc",
      "proxmox_restore_backup_vm", "proxmox_delete_backup", "proxmox_add_disk_vm",
      "proxmox_add_mountpoint_lxc", "proxmox_resize_disk_vm", "proxmox_resize_disk_lxc",
      "proxmox_remove_disk_vm", "proxmox_remove_mountpoint_lxc", "proxmox_move_disk_vm",
      "proxmox_move_disk_lxc", "proxmox_add_network_vm", "proxmox_add_network_lxc",
      "proxmox_update_network_vm", "proxmox_update_network_lxc",
      "proxmox_remove_network_vm">>

\* the names of the tools array of the ListTools handler of index.js, in
\* the order of the array
listTools ==
    <<"proxmox_get_nodes", "proxmox_get_node_status", "proxmox_get_vms",
      "proxmox_get_vm_status", "proxmox_execute_vm_command", "proxmox_get_storage",
      "proxmox_get_cluster_status", "proxmox_list_templates", "proxmox_create_lxc",
      "proxmox_create_vm", "proxmox_get_next_vmid", "proxmox_start_lxc",
      "proxmox_start_vm", "proxmox_stop_lxc", "proxmox_stop_vm", "proxmox_delete_lxc",
      "proxmox_delete_vm", "proxmox_reboot_lxc", "proxmox_reboot_vm",
      "proxmox_shutdown_lxc", "proxmox_shutdown_vm", "proxmox_pause_vm",
      "proxmox_resume_vm", "proxmox_clone_lxc", "proxmox_clone_vm",
      "proxmox_resize_lxc", "proxmox_resize_vm", "proxmox_create_snapshot_lxc",
      "proxmox_create_snapshot_vm", "proxmox_list_snapshots_lxc",
      "proxmox_list_snapshots_vm", "proxmox_rollback_snapshot_lxc",
      "proxmox_rollback_snapshot_vm", "proxmox_delete_snapshot_lxc",
      "proxmox_delete_snapshot_vm", "proxmox_create_backup_lxc",
      "proxmox_create_backup_vm", "proxmox_list_backups", "proxmox_restore_backup_lxc",
      "proxmox_restore_backup_vm", "proxmox_delete_backup", "proxmox_add_disk_vm",
      "proxmox_add_mountpoint_lxc", "proxmox_resize_disk_vm", "proxmox_resize_disk_lxc",
      "proxmox_remove_disk_vm", "proxmox_remove_mountpoint_lxc", "proxmox_move_disk_vm",
      "proxmox_move_disk_lxc", "proxmox_add_network_vm", "proxmox_add_network_lxc",
      "proxmox_update_network_vm", "proxmox_update_network_lxc",
      "proxmox_remove_network_vm", "proxmox_remove_network_lxc">>

\* the names each tool module lists, and the case labels of its getTool
nodeTools_listTools == <<"get_nodes", "get_node_status">>

nodeTools_getToolCases == {"get_nodes", "get_node_status"}

vmTools_listTools == <<"get_vms", "get_vm_status", "execute_vm_command">>

vmTools_getToolCases == {"get_vms", "get_vm_status", "execute_vm_command"}

storageTools_listTools == <<"get_storage">>

storageTools_getToolCases == {"get_storage"}

clusterTools_listTools == <<"get_cluster_status">>

clusterTools_getToolCases == {"get_cluster_status"}

\* setRequestHandler(ListToolsRequestSchema, async () => ({ tools: [...] })):
\* the names of the tools of the answer
ListToolsRequestHandler(v) ==
    IF v = "flat" THEN listTools
    ELSE nodeTools_listTools \o vmTools_listTools \o storageTools_listTools
         \o clusterTools_listTools

\* the dispatcher lets every exception escape (a plausible slip)
CatchNothing(step) == step

\* catch (error) { return { content: [{ type: 'text', text: `Error: ${error.message}` }] } }
Catch(step) == IF step.k = "throw" THEN Ret(Lit("Error: ") \o step.text) ELSE step

\* what the selected handler does next, before the catch of the dispatcher
HandlerStep(v, this, toolName, args, rs) ==
    IF v = "flat" THEN ToolSwitch(this, toolName, args, rs) ELSE getTool(toolName, args, rs)

\* setRequestHandler(CallToolRequestSchema, async (request) => { try ... catch ... })
CallToolRequestHandler(v, this, toolName, args, rs) ==
    Catch(HandlerStep(v, this, toolName, args, rs))

-----------------------------------------------------------------------------
(* The remote: what it answers to a request.  Every payload comes wrapped in *)
(* {data: ...}; a collection is an array or null, a configuration or status  *)
(* an object or null, an action a task identifier or null.                   *)

\* how many nodes the cluster has at most
MaxNodes == 2

pve1 == Chars(<<"p", "v", "e", "1">>)

vm150 == Chars(<<"1", "5", "0">>)

\* what the remote may send as data for a request
Payloads(req) ==
    LET pve2 == Chars(<<"p", "v", "e", "2">>)

        pve3 == Chars(<<"p", "v", "e", "3">>)

        Node(nodeName, status) ==
            JObject(<<Prop("node", JStr(nodeName)), Prop("status", JStr(Lit(status)))>>)

        \* the nodes of the cluster, in the order the remote lists them
        ClusterNodes == <<Node(pve2, "online"), Node(pve1, "offline"), Node(pve3, "online")>>

        Guest(vmid, guestName, status) ==
            JObject(<<Prop("vmid", vmid), Prop("name", guestName), Prop("status",
                    JStr(Lit(status)))>>)

        Storage(storageName) ==
            JObject(<<Prop("storage", JStr(storageName)), Prop("type", JStr(Lit("dir")))>>)

        Snapshot(snapName) == JObject(<<Prop("name", JStr(Lit(snapName)))>>)

        Backup(family, ctime) ==
            JObject(<<Prop("volid", JStr(Lit("local:backup") \o Lit("/") \o Lit(family)
                                         \o vm150 \o Lit("-") \o Lit("2024_01_01.tar.zst"))),
                      Prop("ctime", JNum(ctime))>>)
        last == req.path[Len(req.path)].c
    IN  IF req.method # "GET" THEN {JStr(Lit("UPID:task")), JNull}
        ELSE CASE last = "/nodes" ->
                    {JArray(SubSeq(ClusterNodes, 1, k)) : k \in 0..MaxNodes} \cup {JNull}
               [] last \in {"/qemu", "/lxc"} ->
                    {JArray(<<>>),
                     JArray(<<Guest(JNum(200), JStr(Lit("web")), "running"),
                              Guest(JStr(vm150), JUndefined, "stopped")>>),
                     JArray(<<Spread(Guest(JNum(101), JStr(Lit("db")), "running"),
                                     <<Prop("node", JStr(pve3))>>)>>),
                     JNull}
               [] last = "/storage" ->
                    {JArray(<<>>),
                     JArray(<<Storage(Chars(<<"z", "f", "s">>)),
                              Storage(Chars(<<"l", "o", "c", "a", "l">>)),
                              Storage(Chars(<<"z", "f", "s">>))>>),
                     JNull}
               [] last \in {"/status", "/status/current"} ->
                    {Guest(JNum(150), JStr(Lit("web")), "running"),
                     Guest(JNum(150), JUndefined, "stopped"), JNull}
               [] last = "/cluster/status" ->
                    {JArray(<<JObject(<<Prop("type", JStr(Lit("cluster")))>>)>>), JNull}
               [] last = "/cluster/nextid" -> {JStr(vm150), JNull}
               [] last = "/snapshot" ->
                    {JArray(<<>>), JArray(<<Snapshot("current")>>),
                     JArray(<<Snapshot("before-upgrade"), Snapshot("current")>>),
                     JArray(<<Snapshot("before-upgrade"), Snapshot("current"),
                              Snapshot("after-upgrade")>>),
                     JNull}
               [] last = "/content?content=backup" ->
                    {JArray(<<>>),
                     JArray(<<Backup("vzdump-lxc-", 10), Backup("vzdump-qemu-", 20),
                              Backup("manual-", 0)>>),
                     JNull}
               [] last = "/content?content=vztmpl" ->
                    {JArray(<<>>),
                     JArray(<<JObject(<<Prop("volid", JStr(Lit("local:vztmpl/debian-12")))>>)>>),
                     JNull}
               [] last = "/config" ->
                    {JObject(<<PropAt(Lit("net") \o Lit("0"),
                                      JStr(KeyValue(Lit("virtio"), Lit("52:54:00:12:34:56"))
                                           \o Lit(",") \o KeyValue(Lit("bridge"), Lit("vmbr0"))
                                           \o Lit(",") \o KeyValue(Lit("firewall"), Lit("1")))),
                               Prop("memory", JNum(2048))>>),
                     JObject(<<PropAt(Lit("net") \o Lit("0"),
                                      JStr(KeyValue(Lit("name"), Lit("eth0"))
                                           \o Lit(",") \o KeyValue(Lit("bridge"), Lit("vmbr0"))
                                           \o Lit(",") \o KeyValue(Lit("hwaddr"),
                                                                   Lit("AA:BB:CC:DD:EE:FF"))
                                           \o Lit(",") \o KeyValue(Lit("ip"), Lit("dhcp"))
                                           \o Lit(",") \o KeyValue(Lit("tag"), Lit("5"))
                                           \o Lit(",") \o Lit("link_down")))>>),
                     JObject(<<Prop("memory", JNum(2048))>>),
                     JNull}
               [] OTHER -> {JNull}

\* what fetch and the remote may give for a request
Answers(req) ==
    {Http(kind, JUndefined) : kind \in {"refused", "status", "empty", "garbage"}}
    \cup {Http("json", data) : data \in Payloads(req)}

-----------------------------------------------------------------------------
(* The server at work: one call at a time, each a sequence of transport      *)
(* calls ended by the envelope.                                              *)

ModularTools == {"get_nodes", "get_node_status", "get_vms", "get_vm_status",
                 "execute_vm_command", "get_storage", "get_cluster_status"}

\* the names a caller may send: the tools of the variant, and one that is none
ToolNames(v) == (IF v = "flat" THEN FlatTools ELSE ModularTools) \cup {"no_such_tool"}

\* the text the gates write, sent as an argument
AdvisoryPhrase == Lit("Requires ") \o Lit("Elevated Permissions")

\* the arguments a caller may send with a name: none at all, or an object
ArgsFor(toolName) ==
    LET \* the other fields a caller may send, all at once
        Extras ==
            <<Prop("command", JStr(Chars(<<"l", "s", " ", "-", "l">>))),
              Prop("newid", JStr(Chars(<<"1", "5", "1">>))),
              Prop("hostname", JStr(Lit("clone1"))), Prop("name", JStr(Lit("clone1"))),
              Prop("memory", JNum(1024)), Prop("snapname", JStr(Lit("before-upgrade"))),
              Prop("archive", JStr(Lit("local:backup/vzdump-lxc-150.tar.zst"))),
              Prop("volume", JStr(Lit("local") \o Lit(":") \o Lit("backup") \o Lit("/")
                                  \o Lit("vzdump-lxc-150.tar.zst"))),
              Prop("disk", JStr(Lit("scsi1"))), Prop("mp", JStr(Lit("mp0"))),
              Prop("size", JStr(Lit("10"))), Prop("net", JStr(Lit("net") \o Lit("0"))),
              Prop("bridge", JStr(Lit("vmbr1"))), Prop("model", JStr(Lit("e1000"))),
              Prop("vlan", JNum(5)), Prop("firewall", JBool(FALSE)),
              Prop("ip", JStr(Lit("dhcp"))),
              Prop("ostemplate", JStr(Lit("local:vztmpl/debian-12"))),
              Prop("password", JStr(Lit("Test123!")))>>

        \* an update of the bridge alone
        OnlyBridge == <<Prop("net", JStr(Lit("net") \o Lit("0"))),
                        Prop("bridge", JStr(Lit("vmbr1")))>>

        \* an update of the model alone
        OnlyModel == <<Prop("net", JStr(Lit("net") \o Lit("0"))),
                       Prop("model", JStr(Lit("e1000")))>>

        \* a resize of the cores alone
        OnlyCores == <<Prop("cores", JNum(2))>>

        Resizes == {"proxmox_resize_lxc", "proxmox_resize_vm"}

        \* an update of an interface the guest may not have
        OtherNet == <<Prop("net", JStr(Lit("net") \o Lit("1"))),
                      Prop("bridge", JStr(Lit("vmbr1")))>>

        UpdatesNetwork == {"proxmox_update_network_vm", "proxmox_update_network_lxc"}

        \* a command with a character of the forbidden class
        BadCommand == <<Prop("command", JStr(Chars(<<"l", "s", ";", "r", "m">>)))>>

        ExecutesCommand == {"proxmox_execute_vm_command", "execute_vm_command"}

        ReadsType == {"proxmox_get_vms", "proxmox_get_vm_status", "proxmox_execute_vm_command",
                      "get_vms", "get_vm_status", "execute_vm_command"}

        ReadsVMID == (FlatTools \cup ModularTools)
                     \ {"proxmox_get_nodes", "proxmox_get_node_status", "proxmox_get_vms",
                        "proxmox_get_storage", "proxmox_get_cluster_status",
                        "proxmox_list_templates", "proxmox_get_next_vmid", "proxmox_list_backups",
                        "proxmox_delete_backup", "get_nodes", "get_node_status", "get_vms",
                        "get_storage", "get_cluster_status"}

        ReadsExtras == (ReadsVMID \ {"proxmox_get_vm_status", "get_vm_status"})
                       \cup {"proxmox_list_backups", "proxmox_delete_backup"}
    IN
    {JUndefined} \cup
    {JObject(<<Prop("node", node), Prop("vmid", vmid), Prop("type", type),
               Prop("storage", storage)>> \o extras) :
        node \in {JUndefined, JNum(7), JStr(pve1),
                  JStr(pve1 \o Chars(<<";", " ", "r", "m", " ", "-", "r", "f">>))},
        vmid \in IF toolName \in ReadsVMID
                 THEN {JStr(vm150), JStr(Chars(<<"9", "9">>))} ELSE {JUndefined},
        type \in IF toolName \in ReadsType
                 THEN {JUndefined, JStr(Lit("lxc")), JStr(Lit("qemu")), JStr(Lit("all")),
                       JStr(Lit("docker"))}
                 ELSE {JUndefined},
        storage \in IF toolName = "proxmox_list_templates"
                    THEN {JUndefined, JStr(AdvisoryPhrase)} ELSE {JUndefined},
        extras \in IF toolName \in UpdatesNetwork
                   THEN {<<>>, Extras, OnlyBridge, OnlyModel, OtherNet}
                   ELSE IF toolName \in ExecutesCommand THEN {<<>>, Extras, BadCommand}
                   ELSE IF toolName \in Resizes
                   THEN {<<>>, Extras, OnlyCores, Extras \o OnlyCores}
                   ELSE IF toolName \in ReadsExtras THEN {<<>>, Extras}
                   ELSE {<<>>}}

\* every value of the variable that is not empty opens the gate (a
\* plausible slip)
constructorTruthy(value) == [allowElevated |-> Truthy(value)]

\* the server object as the constructor leaves it:
\* this.allowElevated = process.env.PROXMOX_ALLOW_ELEVATED === 'true'
constructor(value) == [allowElevated |-> value = JStr(Lit("true"))]

NoResponse ==
    [k |-> "none", req |-> NoRequest, text |-> <<>>, hasText |-> FALSE, isError |-> FALSE]

\* the server object
This == [allowElevated |-> allowElevated]

\* what the call being served does next
Step == CallToolRequestHandler(variant, This, name, arguments, resps)

Init ==
    /\ env \in {JUndefined, JStr(Lit("true")), JStr(Lit("TRUE"))}
    /\ allowElevated = constructor(env).allowElevated
    /\ variant \in {"flat", "modular"}
    /\ pc = "idle"
    /\ name = "none"
    /\ arguments = JUndefined
    /\ calls = <<>>
    /\ resps = <<>>
    /\ response = NoResponse
    /\ vfun = "none"
    /\ vin = JUndefined
    /\ vout = <<>>

\* a call-tool request arrives
CallTool ==
    /\ pc = "idle"
    /\ \E n \in ToolNames(variant) : \E a \in ArgsFor(n) :
          /\ name' = n
          /\ arguments' = a
    /\ calls' = <<>>
    /\ resps' = <<>>
    /\ response' = NoResponse
    /\ pc' = "running"
    /\ UNCHANGED <<env, allowElevated, variant, vfun, vin, vout>>

\* the handler issues the request and goes on without awaiting it (a
\* plausible slip)
SendAhead ==
    /\ pc = "running"
    /\ \E step \in {Step} :
          /\ step.k = "req"
          /\ calls' = Append(calls, step.req)
    /\ pc' = "running"
    /\ UNCHANGED <<env, allowElevated, variant, name, arguments, resps, response, vfun, vin, vout>>

\* the handler awaits proxmoxRequest(path, method, body)
Send ==
    /\ pc = "running"
    /\ \E step \in {Step} :
          /\ step.k = "req"
          /\ calls' = Append(calls, step.req)
    /\ pc' = "waiting"
    /\ UNCHANGED <<env, allowElevated, variant, name, arguments, resps, response, vfun, vin, vout>>

\* proxmoxRequest resolves or rejects
Receive ==
    /\ pc = "waiting"
    /\ \E http \in Answers(calls[Len(calls)]) :
          resps' = Append(resps, proxmoxRequest(http))
    /\ pc' = "running"
    /\ UNCHANGED <<env, allowElevated, variant, name, arguments, calls, response, vfun, vin, vout>>

\* the call-tool handler gives its envelope back (or an exception leaves it)
Return ==
    /\ pc = "running"
    /\ \E step \in {Step} :
          /\ step.k # "req"
          /\ response' = step
    /\ pc' = "done"
    /\ UNCHANGED <<env, allowElevated, variant, name, arguments, calls, resps, vfun, vin, vout>>

\* a list-tools request arrives and is answered: { tools: [...] }, of which
\* the answer keeps the names, one symbol each
ListTools ==
    /\ pc = "idle"
    /\ name' = "tools/list"
    /\ response' = [k |-> "tools", req |-> NoRequest,
                    text |-> [i \in 1..Len(ListToolsRequestHandler(variant)) |->
                                 Run(ListToolsRequestHandler(variant)[i], 1)],
                    hasText |-> FALSE, isError |-> FALSE]
    /\ pc' = "listed"
    /\ UNCHANGED <<env, allowElevated, variant, arguments, calls, resps, vfun, vin, vout>>

\* the envelope, or the list of tools, is sent; the server waits for the
\* next request
Finish ==
    /\ pc \in {"done", "listed"}
    /\ pc' = "idle"
    /\ name' = "none"
    /\ arguments' = JUndefined
    /\ calls' = <<>>
    /\ resps' = <<>>
    /\ response' = NoResponse
    /\ UNCHANGED <<env, allowElevated, variant, vfun, vin, vout>>

Next == CallTool \/ ListTools \/ Send \/ Receive \/ Return \/ Finish

Spec == Init /\ [][Next]_vars

-----------------------------------------------------------------------------
(* Properties of the dispatch, gate and error handling *)

\* the tools a Basic caller is meant to use
BasicTools == {"proxmox_get_nodes", "proxmox_get_cluster_status", "proxmox_get_vms",
               "proxmox_get_vm_status", "proxmox_get_storage", "proxmox_get_next_vmid",
               "proxmox_list_templates"}

\* the tools whose handler starts with the gate
GatedTools == FlatTools \ BasicTools

Registered(v) == IF v = "flat" THEN FlatTools ELSE ModularTools

\* C1: in the flat server a call of a gated tool made while allowElevated is
\* false issues no transport call and returns an envelope without isError
\* whose text contains 'Elevated Permissions' and names the flag
\* PROXMOX_ALLOW_ELEVATED=true, whatever the arguments.
C1_Gate ==
    (variant = "flat" /\ ~allowElevated /\ name \in GatedTools /\ pc = "done")
    => /\ calls = <<>>
       /\ ~response.isError
       /\ Contains(response.text, Lit("Elevated Permissions"))
       /\ Contains(response.text, Lit("PROXMOX_ALLOW_ELEVATED=true"))

\* the server object with the other value of the gate
Flipped == [allowElevated |-> ~allowElevated]

ReadOnlyUngated == {"proxmox_get_nodes", "proxmox_get_vms", "proxmox_get_vm_status",
                    "proxmox_get_storage"}

\* C2 as stated: list nodes, list VMs, get VM status, get storage and get
\* cluster status do the same (same next transport call, same envelope) for
\* the same arguments and transport outcomes under either value of the gate.
C2_GateNeverConsulted ==
    (variant = "flat" /\ pc = "running"
     /\ name \in ReadOnlyUngated \cup {"proxmox_get_cluster_status"})
    => CallToolRequestHandler(variant, Flipped, name, arguments, resps) = Step

\* C2: list nodes, list VMs, get VM status and get storage do the same under
\* either value of the gate; get cluster status asks for '/nodes' first under
\* both, and only with the gate open goes on to ask for '/cluster/status' and
\* prints the resource usage instead of the limited-information notice.
C2_GateConsultedByClusterStatusOnly ==
    /\ (variant = "flat" /\ pc = "running" /\ name \in ReadOnlyUngated)
       => CallToolRequestHandler(variant, Flipped, name, arguments, resps) = Step
    /\ (variant = "flat" /\ pc = "running" /\ name = "proxmox_get_cluster_status")
       => /\ resps = <<>> => Step = Req(Lit("/nodes"), "GET", NoBody)
          /\ (Len(resps) = 1 /\ resps[1].ok)
             => /\ Step.k = "req" <=> allowElevated
                /\ allowElevated => Step = Req(Lit("/cluster/status"), "GET", NoBody)
          /\ (Step.k = "ret" /\ resps[1].ok /\ resps[1].data.t = "array")
             => /\ Contains(Step.text, Lit("**Resource Usage**:")) <=> allowElevated
                /\ Contains(Step.text, Lit("requires elevated permissions"))
                   <=> ~allowElevated

C2_Witness ==
    /\ variant = "flat" /\ allowElevated /\ name = "proxmox_get_cluster_status"
    /\ pc = "done" /\ Len(calls) = 2
    /\ Contains(response.text, Lit("**Resource Usage**:"))

C4_NodeValidatedBeforeUse ==
    (variant = "flat" /\ Truthy(Get(arguments, "node"))
     /\ ~validateNodeName(Get(arguments, "node")).ok)
    => \A i \in 1..Len(calls) :
          ~Contains(calls[i].path, ToStr(Get(arguments, "node")))

\* C8: whatever the name, the arguments and the transport outcomes, the
\* call-tool handler of either variant returns an envelope with a text item;
\* no exception leaves it.
C8_EnvelopeAlways ==
    pc = "done" => (response.k = "ret" /\ response.hasText)

C8_Witness ==
    /\ variant = "modular" /\ pc = "done" /\ resps # <<>> /\ ~resps[Len(resps)].ok
    /\ StartsWith(response.text, Lit("Error: "))

\* C9: a call of a name that is not registered ends, without a transport
\* call, in the envelope 'Error: Unknown tool: <name>', and leaves the server
\* as it was.
C9_UnknownTool ==
    [][(pc = "running" /\ name \notin Registered(variant))
       => /\ pc' = "done"
          /\ calls' = <<>>
          /\ response' = Ret(Lit("Error: ") \o Lit("Unknown tool: ") \o Lit(name))
          /\ allowElevated' = allowElevated
          /\ variant' = variant]_vars

C9_Witness ==
    /\ variant = "modular" /\ name = "no_such_tool" /\ pc = "done"
    /\ calls = <<>> /\ StartsWith(response.text, Lit("Error: "))

\* C10: a transport error is caught inside the handler that made the call:
\* no handler throws it on to the dispatcher.
C10_CaughtInHandler ==
    (pc = "running" /\ resps # <<>> /\ ~resps[Len(resps)].ok)
    => HandlerStep(variant, This, name, arguments, resps).k # "throw"

\* the outcomes of the validators on the arguments of the call
ValidatorOutcomes ==
    <<validateNodeName(Get(arguments, "node")), validateVMID(Get(arguments, "vmid")),
      validateCommand(Get(arguments, "command"))>>

\* the arguments with a valid node and id in the place of the caller's
WithValidIds(args) ==
    Spread(args, <<Prop("node", JStr(pve1)), Prop("vmid", JStr(vm150))>>)

\* a gated tool is called with an arguments object while the gate is shut
GatedShut ==
    /\ variant = "flat" /\ ~allowElevated /\ name \in GatedTools
    /\ arguments.t = "object" /\ pc # "idle"

\* C24: the gate comes before the validation: with allowElevated false a
\* gated tool called with an invalid node, an id out of range or a command
\* with forbidden characters issues no transport call and returns the
\* advisory; the text holds the message of no validator and is the text the
\* same call gets with a valid node and id.
C24_GateBeforeValidation ==
    GatedShut
    => /\ calls = <<>>
       /\ pc = "running" => Step.k = "ret"
       /\ pc = "done"
          => /\ response.k = "ret"
             /\ Contains(response.text, AdvisoryPhrase)
             /\ \A i \in 1..Len(ValidatorOutcomes) :
                   ~ValidatorOutcomes[i].ok
                   => ~Contains(response.text, ValidatorOutcomes[i].err)
             /\ response = CallToolRequestHandler(variant, This, name,
                                                  WithValidIds(arguments), <<>>)

\* the advisory was the answer to a command with a forbidden character, on a
\* node and an id no validator accepts
C24_Witness ==
    /\ GatedShut /\ pc = "done" /\ name = "proxmox_execute_vm_command"
    /\ \A i \in 1..Len(ValidatorOutcomes) : ~ValidatorOutcomes[i].ok
    /\ Contains(response.text, AdvisoryPhrase)

\* the gated tools whose handler takes no id of a guest
NoVMIDTools == {"proxmox_get_node_status", "proxmox_list_backups", "proxmox_delete_backup"}

\* the outcomes of the validators the handler of the call applies, in the
\* order it applies them
AppliedValidators ==
    <<validateNodeName(Get(arguments, "node"))>>
    \o (IF name \in NoVMIDTools THEN <<>> ELSE <<validateVMID(Get(arguments, "vmid"))>>)
    \o (IF name = "proxmox_execute_vm_command"
        THEN <<validateCommand(Get(arguments, "command"))>> ELSE <<>>)
    \o (IF name \in {"proxmox_clone_lxc", "proxmox_clone_vm"}
        THEN <<validateVMID(Get(arguments, "newid"))>> ELSE <<>>)

\* a gated tool is called, the gate open, with an argument a validator of its
\* handler rejects
GatedRejected ==
    /\ variant = "flat" /\ allowElevated /\ name \in GatedTools
    /\ arguments.t = "object" /\ pc # "idle"
    /\ ~AllValid(AppliedValidators)

\* C26: with the gate open, a gated tool called with a node, an id or a
\* command its validator rejects issues no transport call and returns an
\* envelope whose text carries the message of the validator; no exception
\* leaves the handler.
C26_ValidationRendered ==
    GatedRejected
    => /\ calls = <<>>
       /\ pc = "running"
          => HandlerStep(variant, This, name, arguments, resps).k = "ret"
       /\ pc = "done"
          => /\ response.k = "ret"
             /\ Contains(response.text, FirstInvalid(AppliedValidators).err)

\* a resize that names neither the memory nor the cores: the handler answers
\* before it validates
EmptyResize ==
    /\ name \in {"proxmox_resize_lxc", "proxmox_resize_vm"}
    /\ Get(arguments, "memory") = JUndefined
    /\ Get(arguments, "cores") = JUndefined

\* C26 (amended): as C26, for every gated call but a resize that names
\* neither the memory nor the cores.
C26_ValidationRenderedWhenApplied ==
    (GatedRejected /\ ~EmptyResize)
    => /\ calls = <<>>
       /\ pc = "running"
          => HandlerStep(variant, This, name, arguments, resps).k = "ret"
       /\ pc = "done"
          => /\ response.k = "ret"
             /\ Contains(response.text, FirstInvalid(AppliedValidators).err)

\* a resize of the memory of a guest whose id is out of range was answered
\* with the message of validateVMID
C26_Witness ==
    /\ GatedRejected /\ pc = "done" /\ name = "proxmox_resize_vm"
    /\ Get(arguments, "memory") # JUndefined
    /\ validateNodeName(Get(arguments, "node")).ok
    /\ Contains(response.text, validateVMID(Get(arguments, "vmid")).err)
    /\ calls = <<>>

-----------------------------------------------------------------------------
(* Properties of the list operations *)

ListVMsTools == {"proxmox_get_vms", "get_vms"}

ListStorageTools == {"proxmox_get_storage", "get_storage"}

\* the call being served was made with an arguments object without a node
NoNodeFilter == arguments.t = "object" /\ ~Truthy(Get(arguments, "node"))

\* the call is over and every transport call of it gave an array
ListCompleted ==
    /\ pc = "done"
    /\ resps # <<>>
    /\ \A i \in 1..Len(resps) : resps[i].ok /\ resps[i].data.t = "array"

\* the nodes the node listing returned
ListedNodes == resps[1].data.items

\* `/nodes/${node.node}` and the place of the sub-resource
SubPath(node, rest) == Lit("/nodes/") \o ToStr(Get(node, "node")) \o Lit(rest)

\* the families a list of VMs asks for, for the type the caller gave
FamiliesAsked ==
    LET type == Get(arguments, "type")
    IN  IF ~Truthy(type) \/ type = JStr(Lit("all")) THEN <<"/qemu", "/lxc">>
        ELSE IF type = JStr(Lit("qemu")) THEN <<"/qemu">>
        ELSE IF type = JStr(Lit("lxc")) THEN <<"/lxc">>
        ELSE <<>>

FailedCalls == {i \in 1..Len(resps) : ~resps[i].ok}

\* C12: in a list of VMs or of storage over all nodes, once the sub-request
\* of a node has failed no further transport call is issued, and the call
\* ends in the envelope whose whole text is 'Error: ' and the message of that
\* failure: nothing of the entries collected from earlier nodes is in it.
C12_PartialFailureFailsAll ==
    (name \in ListVMsTools \cup ListStorageTools /\ NoNodeFilter
     /\ \E i \in FailedCalls : i > 1)
    => /\ FailedCalls = {Len(resps)}
       /\ Len(calls) = Len(resps)
       /\ pc \in {"running", "done"}
       /\ pc = "running" => Step = Ret(Lit("Error: ") \o resps[Len(resps)].err)
       /\ pc = "done" => response = Ret(Lit("Error: ") \o resps[Len(resps)].err)

C12_Witness ==
    /\ name = "proxmox_get_vms" /\ NoNodeFilter /\ pc = "done"
    /\ Len(resps) = 4 /\ FailedCalls = {4}
    /\ Len(resps[2].data.items) > 0
    /\ Len(ListedNodes) = MaxNodes
    /\ StartsWith(response.text, Lit("Error: "))

\* the node a sub-request was sent to: the path between '/nodes/' and the
\* sub-resource
NodeAsked(req) == SubSeq(req.path, 2, Len(req.path) - 1)

\* the family a sub-request was sent for, as the text writes it
FamilyAsked(req) == IF req.path[Len(req.path)].c = "/qemu" THEN "QEMU" ELSE "LXC"

\* what the text of a list of VMs says of an entry with a node and a family
TaggedVM(vm, node, family) ==
    Lit("** (ID: ") \o ToStr(Get(vm, "vmid")) \o Lit(")")
    \o Lit("Node: ") \o node
    \o Lit("Status: ") \o ToStr(Get(vm, "status"))
    \o Lit("Type: ") \o Lit(family)

\* what the text of a list of storage says of an entry with a node
TaggedStorage(storage, node) ==
    Lit("**") \o ToStr(Get(storage, "storage")) \o Lit("**")
    \o Lit("Node: ") \o node \o Lit("Type: ")

\* C20: every entry a list over all nodes reports carries the node whose
\* sub-request returned it, and in a list of VMs the family of that
\* sub-request: an entry that '/nodes/<n>/lxc' returned is reported with
\* node <n> and type LXC, an entry of '/nodes/<n>/storage' with node <n>.
C20_TaggedWithOrigin ==
    (variant = "flat" /\ ListCompleted /\ NoNodeFilter)
    => /\ name = "proxmox_get_vms"
          => \A j \in 2..Len(calls) : \A e \in 1..Len(resps[j].data.items) :
                Contains(response.text,
                         TaggedVM(resps[j].data.items[e], NodeAsked(calls[j]),
                                  FamilyAsked(calls[j])))
       /\ name = "proxmox_get_storage"
          => \A j \in 2..Len(calls) : \A e \in 1..Len(resps[j].data.items) :
                Contains(response.text,
                         TaggedStorage(resps[j].data.items[e], NodeAsked(calls[j])))

\* the family of the sub-request a transport call is, if it is one
IsFamilyRequest(req, family) == req.path # <<>> /\ req.path[Len(req.path)].c = family

\* C29: a list of VMs asks a node for a family only when the type filter
\* selects it, with and without a node filter and in both servers: with type
\* 'qemu' no '/lxc' request is issued, with type 'lxc' no '/qemu' request,
\* and with 'all' (or no type) the '/qemu' request of a node is followed by
\* its '/lxc' request.
C29_FamiliesByFilter ==
    (name \in ListVMsTools /\ arguments.t = "object")
    => /\ Get(arguments, "type") = JStr(Lit("qemu"))
          => \A i \in 1..Len(calls) : ~IsFamilyRequest(calls[i], "/lxc")
       /\ Get(arguments, "type") = JStr(Lit("lxc"))
          => \A i \in 1..Len(calls) : ~IsFamilyRequest(calls[i], "/qemu")
       /\ Get(arguments, "type") \in {JUndefined, JStr(Lit("all"))}
          => \A i \in 1..Len(calls) :
                IsFamilyRequest(calls[i], "/lxc")
                => /\ i > 1
                   /\ IsFamilyRequest(calls[i - 1], "/qemu")
                   /\ SubSeq(calls[i - 1].path, 1, Len(calls[i].path) - 1)
                         = SubSeq(calls[i].path, 1, Len(calls[i].path) - 1)

-----------------------------------------------------------------------------
(* Properties of the network update *)

\* the write of an update that names the bridge alone has been issued
OnlyBridgeUpdate ==
    /\ variant = "flat"
    /\ name \in {"proxmox_update_network_vm", "proxmox_update_network_lxc"}
    /\ arguments.t = "object"
    /\ Get(arguments, "bridge").t = "string"
    /\ \A k \in {"model", "macaddr", "vlan", "firewall", "ip", "gw"} :
          Get(arguments, k) = JUndefined
    /\ Len(calls) = 2
    /\ calls[2].method = "PUT"

\* the parts, between commas, of a configuration string
ConfigPieces(s) == {Norm(Split(s, ",")[i]) : i \in 1..Len(Split(s, ","))}

\* the part of the interface read, and the part written back
OldPieces == ConfigPieces(GetAt(resps[1].data, ToStr(Get(arguments, "net"))).s)

NewPieces == ConfigPieces(calls[2].body.kv[1].v.s)

BridgePiece(bridge) == Norm(KeyValue(Lit("bridge"), bridge))

IsBridgePiece(piece) == piece # <<>> /\ piece[1].c = "bridge"

\* C13: an update of a network interface (VM or LXC) that names the bridge
\* alone writes back a configuration in which every other part of the
\* configuration read (key=value or a flag without a value) is present as it
\* was, the bridge has the new value, and nothing else is added.
C13_BridgeOnlyMerge ==
    OnlyBridgeUpdate
    => /\ \A piece \in OldPieces : ~IsBridgePiece(piece) => piece \in NewPieces
       /\ BridgePiece(ToStr(Get(arguments, "bridge"))) \in NewPieces
       /\ \A piece \in NewPieces : IsBridgePiece(piece) \/ piece \in OldPieces

\* the write of an update of a VM interface that names the model alone has
\* been issued
OnlyModelUpdate ==
    /\ variant = "flat"
    /\ name = "proxmox_update_network_vm"
    /\ arguments.t = "object"
    /\ Get(arguments, "model").t = "string"
    /\ \A k \in {"bridge", "macaddr", "vlan", "firewall"} : Get(arguments, k) = JUndefined
    /\ Len(calls) = 2
    /\ calls[2].method = "PUT"

\* a part whose key is a model of network card
IsModelPiece(piece) ==
    piece # <<>> /\ piece[1].c \in {"virtio", "e1000", "rtl8139", "vmxnet3"}

\* the part with the key replaced by the model
Remodelled(piece, model) == Norm(model \o SubSeq(piece, 2, Len(piece)))

\* C25: an update of a VM interface that names the model alone writes back
\* a configuration that keeps every other part of the configuration read
\* (bridge, tag, firewall) as it was and keeps the hardware address, the
\* value of the old model key, as the value of the new model key; nothing
\* else changes.
C25_ModelOnlyKeepsRest ==
    OnlyModelUpdate
    => /\ \A piece \in OldPieces :
             IF IsModelPiece(piece)
             THEN Remodelled(piece, ToStr(Get(arguments, "model"))) \in NewPieces
             ELSE piece \in NewPieces
       /\ \A piece \in NewPieces : piece \in OldPieces \/ IsModelPiece(piece)

\* a network update is served with the gate open and a valid node and id
UpdateServed ==
    /\ variant = "flat" /\ allowElevated
    /\ name \in {"proxmox_update_network_vm", "proxmox_update_network_lxc"}
    /\ arguments.t = "object" /\ pc # "idle"
    /\ validateNodeName(Get(arguments, "node")).ok
    /\ validateVMID(Get(arguments, "vmid")).ok

\* the path of the configuration of the guest the arguments name
ConfigPath ==
    Lit("/nodes/") \o Get(arguments, "node").s \o Lit("/")
    \o Lit(IF name = "proxmox_update_network_lxc" THEN "lxc" ELSE "qemu") \o Lit("/")
    \o validateVMID(Get(arguments, "vmid")).v \o Lit("/config")

\* the configuration read has the interface the caller names
HasInterface ==
    /\ resps # <<>> /\ resps[1].ok /\ resps[1].data.t = "object"
    /\ \E i \in 1..Len(resps[1].data.items) :
          resps[1].data.items[i].k = Norm(ToStr(Get(arguments, "net")))

\* C28: with the gate open and a valid node and id a network update reads
\* and then writes one path: one GET of '/nodes/<node>/<family>/<vmid>/config',
\* then at most one PUT to the same path; the PUT is issued only when the
\* configuration read has the interface named, its body has one key, that
\* interface, and a configuration read without the interface is answered
\* with the 'does not exist' text and no write.
C28_ReadModifyWrite ==
    UpdateServed
    => /\ Len(calls) <= 2
       /\ pc = "done" => calls # <<>>
       /\ calls # <<>> => calls[1] = Request(ConfigPath, "GET", NoBody)
       /\ Len(calls) = 2
          => /\ calls[2].method = "PUT"
             /\ calls[2].path = calls[1].path
             /\ HasInterface
             /\ Len(calls[2].body.kv) = 1
             /\ calls[2].body.kv[1].k = Norm(ToStr(Get(arguments, "net")))
       /\ (pc = "done" /\ resps[1].ok /\ resps[1].data.t = "object" /\ ~HasInterface)
          => /\ Len(calls) = 1
             /\ Contains(response.text, Lit(" does not exist**"))

\* the interface net0 of a configuration with two keys was written back
C28_Witness ==
    /\ UpdateServed /\ pc = "done" /\ Len(calls) = 2
    /\ resps[2].ok
    /\ Len(resps[1].data.items) = 2
    /\ calls[2].body.kv[1].k = Lit("net") \o Lit("0")

-----------------------------------------------------------------------------
(* Properties of the snapshot list *)

\* a list of snapshots has come back from the remote, and the call is over
SnapshotsListed ==
    /\ variant = "flat"
    /\ name \in {"proxmox_list_snapshots_lxc", "proxmox_list_snapshots_vm"}
    /\ pc = "done"
    /\ Len(resps) = 1 /\ resps[1].ok /\ resps[1].data.t = "array"

\* the names of the entries that are not 'current', in the order of the list
RealSnapshotNames ==
    LET names == [i \in 1..Len(resps[1].data.items) |->
                    Get(resps[1].data.items[i], "name")]
    IN  SelectSeq(names, LAMBDA n : n # JStr(Lit("current")))

\* how often a symbol is in a text
Occurrences(text, c) == Cardinality({i \in 1..Len(text) : text[i].c = c})

\* C14: a list of snapshots never shows the entry named 'current' and never
\* counts it: for a remote list of 'current' and k real snapshots the text
\* names the k real snapshots, no other, and says 'Total: k'; when no real
\* snapshot is in the list the text says that no snapshots were found.
C14_CurrentFiltered ==
    SnapshotsListed
    => /\ ~Contains(response.text, Lit("**") \o Lit("current") \o Lit("**"))
       /\ \A i \in 1..Len(RealSnapshotNames) :
             Contains(response.text, Lit("**") \o ToStr(RealSnapshotNames[i]) \o Lit("**"))
       /\ Occurrences(response.text, "**") = 1 + 2 * Len(RealSnapshotNames)
       /\ IF RealSnapshotNames = <<>>
          THEN /\ Contains(response.text, Lit("No snapshots found."))
               /\ ~Contains(response.text, Lit("**Total**: "))
          ELSE /\ Contains(response.text,
                           Lit("**Total**: ") \o NumToStr(Len(RealSnapshotNames))
                           \o Lit(" snapshot(s)"))
               /\ ~Contains(response.text, Lit("No snapshots found."))

C14_Witness ==
    /\ SnapshotsListed
    /\ Len(resps[1].data.items) = 3
    /\ \E i \in 1..3 : Get(resps[1].data.items[i], "name") = JStr(Lit("current"))
    /\ Contains(response.text, Lit("**Total**: ") \o Lit("2") \o Lit(" snapshot(s)"))

-----------------------------------------------------------------------------
(* Properties of the commands on a guest *)

StatusChangeTools ==
    {"proxmox_start_lxc", "proxmox_start_vm", "proxmox_stop_lxc", "proxmox_stop_vm",
     "proxmox_reboot_lxc", "proxmox_reboot_vm", "proxmox_shutdown_lxc",
     "proxmox_shutdown_vm", "proxmox_pause_vm", "proxmox_resume_vm"}

DeleteTools == {"proxmox_delete_lxc", "proxmox_delete_vm"}

\* the family a tool name stands for
FamilyOfTool(n) ==
    IF n \in {"proxmox_start_lxc", "proxmox_stop_lxc", "proxmox_reboot_lxc",
              "proxmox_shutdown_lxc", "proxmox_delete_lxc"}
    THEN "lxc" ELSE "qemu"

\* the endpoint of a command, after the resource
EndpointOfTool(n) ==
    CASE n \in {"proxmox_start_lxc", "proxmox_start_vm"} -> "/status/start"
      [] n \in {"proxmox_stop_lxc", "proxmox_stop_vm"} -> "/status/stop"
      [] n \in {"proxmox_reboot_lxc", "proxmox_reboot_vm"} -> "/status/reboot"
      [] n \in {"proxmox_shutdown_lxc", "proxmox_shutdown_vm"} -> "/status/shutdown"
      [] n = "proxmox_pause_vm" -> "/status/suspend"
      [] n = "proxmox_resume_vm" -> "/status/resume"
      [] OTHER -> ""

\* a command on a guest is served with the gate open and a valid node and id
CommandServed ==
    /\ variant = "flat" /\ allowElevated
    /\ name \in StatusChangeTools \cup DeleteTools
    /\ pc # "idle"
    /\ arguments.t = "object"
    /\ validateNodeName(Get(arguments, "node")).ok
    /\ validateVMID(Get(arguments, "vmid")).ok

\* C15: with the gate open and a valid node and id, start, stop, reboot,
\* shutdown, pause, resume and delete issue exactly one transport call (POST
\* to the status-change endpoint, DELETE on the resource) and return after
\* its outcome without a second call; the text names the task identifier
\* that call returned.
C15_OneCallNoPolling ==
    CommandServed
    => /\ Len(calls) <= 1
       /\ (pc = "running" /\ resps = <<>>) => Step.k = "req"
       /\ (pc = "running" /\ resps # <<>>) => Step.k = "ret"
       /\ calls # <<>>
          => /\ calls[1].method = (IF name \in DeleteTools THEN "DELETE" ELSE "POST")
             /\ calls[1].path
                   = Lit("/nodes/") \o Get(arguments, "node").s \o Lit("/")
                     \o Lit(FamilyOfTool(name)) \o Lit("/")
                     \o validateVMID(Get(arguments, "vmid")).v \o Lit(EndpointOfTool(name))
       /\ pc = "done"
          => /\ Len(calls) = 1 /\ Len(resps) = 1
             /\ (resps[1].ok /\ Truthy(resps[1].data))
                => Contains(response.text,
                            Lit("**Task ID**: ") \o ToStr(resps[1].data))

C15_Witness ==
    /\ CommandServed /\ name = "proxmox_delete_lxc" /\ pc = "done"
    /\ calls[1].method = "DELETE"
    /\ Contains(response.text, Lit("**Task ID**: ") \o Lit("UPID:task"))

\* the type the caller gave is a string that names no family
ForeignType ==
    /\ arguments.t = "object"
    /\ Get(arguments, "type").t = "string"
    /\ Get(arguments, "type") \notin {JStr(Lit("qemu")), JStr(Lit("lxc"))}

\* C16: the family of a guest is validated before it is used: a type of
\* the caller that is neither 'qemu' nor 'lxc' is in the path of no transport
\* call, and the family segment of a status request is 'qemu' or 'lxc'
\* ('qemu' when the caller gave none).
C16_FamilyValidated ==
    /\ ForeignType
       => \A i \in 1..Len(calls) :
             ~Contains(calls[i].path, ToStr(Get(arguments, "type")))
    /\ (name \in {"proxmox_get_vm_status", "get_vm_status"} /\ calls # <<>>)
       => \/ Contains(calls[1].path, Lit("/") \o Lit("qemu") \o Lit("/"))
          \/ Contains(calls[1].path, Lit("/") \o Lit("lxc") \o Lit("/"))

\* a command is being executed on a guest of family qemu (the default) or
\* lxc: the flat server with the gate open and a valid node, id and command,
\* the modular server with an arguments object
ExecServed ==
    /\ pc # "idle"
    /\ arguments.t = "object"
    /\ Get(arguments, "type") \in {JUndefined, JStr(Lit("qemu")), JStr(Lit("lxc"))}
    /\ \/ /\ variant = "flat" /\ name = "proxmox_execute_vm_command" /\ allowElevated
          /\ validateNodeName(Get(arguments, "node")).ok
          /\ validateVMID(Get(arguments, "vmid")).ok
          /\ validateCommand(Get(arguments, "command")).ok
       \/ variant = "modular" /\ name = "execute_vm_command"

\* the path of the exec endpoint of the guest the arguments name
ExecPath ==
    LET lxc == Get(arguments, "type") = JStr(Lit("lxc"))
    IN  IF variant = "flat"
        THEN Lit("/nodes/") \o Get(arguments, "node").s
             \o Lit(IF lxc THEN "/lxc/" ELSE "/qemu/")
             \o validateVMID(Get(arguments, "vmid")).v
             \o Lit(IF lxc THEN "/exec" ELSE "/agent/exec")
        ELSE Lit("/nodes/") \o ToStr(Get(arguments, "node")) \o Lit("/")
             \o Lit(IF lxc THEN "lxc" ELSE "qemu") \o Lit("/")
             \o ToStr(Get(arguments, "vmid")) \o Lit("/agent/exec")

\* C21: executing a command on a guest issues exactly one transport call, a
\* POST with body {command: <the caller's command, unchanged>}: for type
\* qemu (the default) to '/nodes/<node>/qemu/<vmid>/agent/exec', for type lxc
\* to the exec endpoint of the container; the handler returns after the
\* outcome of that call.
C21_ExecOnePost ==
    ExecServed
    => /\ Len(calls) <= 1
       /\ (pc = "running" /\ resps = <<>>) => Step.k = "req"
       /\ (pc = "running" /\ resps # <<>>) => Step.k # "req"
       /\ pc = "done" => Len(calls) = 1
       /\ calls # <<>>
          => calls[1] = Request(ExecPath, "POST",
                                Body(<<Prop("command", Get(arguments, "command"))>>))

\* a command was executed on a container by the flat server
C21_Witness ==
    /\ ExecServed /\ variant = "flat" /\ pc = "done"
    /\ Get(arguments, "type") = JStr(Lit("lxc"))
    /\ calls[1].body.kv = <<Prop("command", JStr(Chars(<<"l", "s", " ", "-", "l">>)))>>
    /\ Contains(calls[1].path, Lit("/lxc/"))
    /\ resps[1].ok

\* C22: in the modular server execute_vm_command and get_node_status check
\* the permission gate first: when PROXMOX_ALLOW_ELEVATED is not 'true' they
\* issue no transport call and the envelope is the advisory.
C22_ModularGateFirst ==
    (/\ variant = "modular"
     /\ name \in {"execute_vm_command", "get_node_status"}
     /\ env # JStr(Lit("true")))
    => /\ calls = <<>>
       /\ pc = "done" => /\ response.k = "ret"
                         /\ Contains(response.text, AdvisoryPhrase)

-----------------------------------------------------------------------------
(* Properties of the creation of a container *)

\* the field of the body of a transport call
BodyField(req, k) == Get(JObject(req.body.kv), k)

\* C23: the request that creates a container carries the root password
\* 'proxmox' when the caller gave none, and the caller's password when one
\* was given.
C23_DefaultPassword ==
    (name = "proxmox_create_lxc" /\ calls # <<>>)
    => BodyField(calls[1], "password")
          = Or(Get(arguments, "password"), JStr(Lit("proxmox")))

-----------------------------------------------------------------------------
(* Properties of the resize *)

\* a resize is served with the gate open
ResizeServed ==
    /\ variant = "flat" /\ allowElevated
    /\ name \in {"proxmox_resize_lxc", "proxmox_resize_vm"}
    /\ arguments.t = "object" /\ pc # "idle"

\* the parameters of a resize the caller supplied, as fields of a body
SuppliedResize ==
    {Prop(k, Get(arguments, k)) : k \in {k \in {"memory", "cores"} :
                                             Get(arguments, k) # JUndefined}}

\* C27: with the gate open, a resize that names neither the memory nor the
\* cores issues no transport call and returns the text that asks for at
\* least one parameter; a resize of a valid node and id that names at least
\* one issues exactly one call, PUT '/nodes/<node>/<family>/<vmid>/config',
\* whose body holds the parameters supplied and no others.
C27_ResizeBody ==
    ResizeServed
    => IF EmptyResize
       THEN /\ calls = <<>>
            /\ pc = "done"
               => /\ Contains(response.text, Lit("**No Resize Parameters Provided**"))
                  /\ Contains(response.text, Lit("Please specify at least one parameter:"))
       ELSE (validateNodeName(Get(arguments, "node")).ok
             /\ validateVMID(Get(arguments, "vmid")).ok)
            => /\ Len(calls) <= 1
               /\ pc = "done" => Len(calls) = 1
               /\ calls # <<>>
                  => /\ calls[1].method = "PUT"
                     /\ calls[1].path
                           = Lit("/nodes/") \o Get(arguments, "node").s \o Lit("/")
                             \o Lit(IF name = "proxmox_resize_lxc" THEN "lxc" ELSE "qemu")
                             \o Lit("/") \o validateVMID(Get(arguments, "vmid")).v
                             \o Lit("/config")
                     /\ calls[1].body.given
                     /\ {calls[1].body.kv[i] : i \in 1..Len(calls[1].body.kv)}
                           = SuppliedResize
                     /\ Len(calls[1].body.kv) = Cardinality(SuppliedResize)

\* a resize of the cores alone was written
C27_Witness ==
    /\ ResizeServed /\ pc = "done" /\ Len(calls) = 1
    /\ calls[1].body.kv = <<Prop("cores", JNum(2))>>
    /\ resps[1].ok

-----------------------------------------------------------------------------
(* Properties of the server as a whole *)

\* C17: the gate is true exactly when PROXMOX_ALLOW_ELEVATED is 'true', and
\* no step of any call (whatever its name, arguments and outcome) changes the
\* gate, the variable it was read from or the dispatcher.
C17_GateConstant ==
    /\ [](allowElevated <=> env = JStr(Lit("true")))
    /\ [][allowElevated' = allowElevated /\ env' = env /\ variant' = variant]_vars

\* a call has ended in an error of the transport, the gate shut by a value
\* of the variable that is not 'true'
C17_Witness ==
    /\ env = JStr(Lit("TRUE")) /\ ~allowElevated /\ pc = "done"
    /\ resps # <<>> /\ ~resps[Len(resps)].ok

\* how often a text holds a phrase
CountIn(text, phrase) ==
    Cardinality({i \in 0..(Len(text) - Len(phrase)) :
                    SubSeq(text, i + 1, i + Len(phrase)) = phrase})

\* C18: no handler retries and no failure is lost: a transport call that
\* failed is not issued again in the same invocation, and the envelope of
\* that invocation holds the message of every failed call exactly once (the
\* '/cluster/status' request of get cluster status included).
C18_NoRetryReportedOnce ==
    /\ \A i \in FailedCalls : \A j \in (i + 1)..Len(calls) : calls[j] # calls[i]
    /\ pc = "done"
       => \A i \in FailedCalls :
             /\ response.k = "ret"
             /\ CountIn(response.text, resps[i].err) = 1

\* C19: within one invocation at most one transport call is in flight: a
\* call is issued only when every earlier call of the invocation has had its
\* outcome, the requests per node and family of the lists and the read and
\* the write of the network updates included.
C19_OneInFlight ==
    /\ Len(calls) \in {Len(resps), Len(resps) + 1}
    /\ Len(calls) = Len(resps) + 1 <=> pc = "waiting"
    /\ pc = "done" => Len(calls) = Len(resps)

\* the write of a network update is in flight, and its read is answered
C19_Witness ==
    /\ pc = "waiting"
    /\ name = "proxmox_update_network_vm"
    /\ Len(calls) = 2 /\ Len(resps) = 1
    /\ calls[1].method = "GET" /\ calls[2].method = "PUT"

-----------------------------------------------------------------------------
(* Properties of the registry *)

\* the names the answer to the list-tools request advertises
Advertised == {response.text[i].c : i \in 1..Len(response.text)}

\* the case labels of the getTool of each tool module
FamilyCases == <<nodeTools_getToolCases, vmTools_getToolCases, storageTools_getToolCases,
                 clusterTools_getToolCases>>

\* the names tried on the dispatcher: every name advertised, every case
\* label of either server, and one that is none
NamesTried ==
    Advertised \cup FlatTools \cup UNION {FamilyCases[f] : f \in 1..Len(FamilyCases)}
    \cup {"no_such_tool"}

\* the dispatcher routes the name to a handler
Dispatches(n) ==
    HandlerStep(variant, This, n, JObject(<<>>), <<>>)
        # Throw(Lit("Unknown tool: ") \o Lit(n))

\* C30: the names the list-tools request advertises are the names the
\* dispatcher routes to a handler: every advertised name is routed, every
\* routed name is advertised, no name is advertised twice (55 names in the
\* flat server), and in the modular server a name is a case of the getTool
\* of at most one tool module; a call ends in 'Unknown tool' exactly when its
\* name is not advertised.
C30_RegistryConsistent ==
    /\ pc = "listed"
       => /\ \A n \in NamesTried : n \in Advertised <=> Dispatches(n)
          /\ Cardinality(Advertised) = Len(response.text)
          /\ variant = "flat" => Len(response.text) = 55
          /\ variant = "modular"
             => \A n \in NamesTried :
                   /\ Cardinality({f \in 1..Len(FamilyCases) : n \in FamilyCases[f]}) <= 1
                   /\ Dispatches(n) <=> \E f \in 1..Len(FamilyCases) : n \in FamilyCases[f]
    /\ pc = "done"
       => (response = Ret(Lit("Error: ") \o Lit("Unknown tool: ") \o Lit(name))
           <=> \A i \in 1..Len(ListToolsRequestHandler(variant)) :
                  ListToolsRequestHandler(variant)[i] # name)

\* the flat server has listed its tools, the last of the switch among them
C30_Witness ==
    /\ pc = "listed" /\ variant = "flat"
    /\ Len(response.text) = 55
    /\ "proxmox_remove_network_lxc" \in Advertised

-----------------------------------------------------------------------------
(* The validators applied to bounded inputs *)

\* the longest input, in runs
MaxRuns == 2

\* how often a validator is applied to the same value
MaxApply == 2

\* the values a validator is applied to: values that are no string, every
\* string of at most MaxRuns runs over an alphabet, and the strings of the
\* examples
ValidatorInputs(f) ==
    LET Strs(alphabet, counts, k) ==
            UNION {[1..m -> {Run(c, n) : c \in alphabet, n \in counts}] : m \in 0..k}

        NonStrings == {JUndefined, JNull, JNum(0), JNum(150), JBool(TRUE), JObject(<<>>)}

        NodeNameInputs ==
            NonStrings
            \cup {JStr(s) : s \in Strs({"p", "Z", "7", "-", "_", ";", " ", "/"},
                                       {1, NodeNameMaxLen - 1, NodeNameMaxLen}, MaxRuns)}
            \cup {JStr(Chars(<<"p", "v", "e", "1">>)),
                  JStr(Chars(<<"p", "v", "e", "1", ";", " ", "r", "m", " ", "-", "r", "f">>))}

        VMIDInputs ==
            NonStrings
            \cup {JStr(s) : s \in Strs({"0", "1", "9", " ", "+", "-", "a", "."},
                                       {1, 2, 9}, MaxRuns)}
            \cup {JStr(Chars(<<"1", "5", "0">>)), JStr(Chars(<<"0", "1", "5", "0">>)),
                  JStr(Chars(<<"1", "0", "0", "a">>)),
                  JStr(Chars(<<"1", "5", "0", ";", "r", "m">>))}

        CommandInputs ==
            NonStrings
            \cup {JStr(s) : s \in Strs(DangerousChars \cup {"l", "s", " ", "-"},
                                       {1, CommandMaxLen}, MaxRuns)}
    IN  CASE f = "validateNodeName" -> NodeNameInputs
          [] f = "validateVMID" -> VMIDInputs
          [] f = "validateCommand" -> CommandInputs

server == <<env, allowElevated, pc, variant, name, arguments, calls, resps, response>>

\* the server is not serving a call
InitValidate ==
    /\ env = JUndefined
    /\ allowElevated = constructor(env).allowElevated
    /\ pc = "idle"
    /\ variant = "flat"
    /\ name = "none"
    /\ arguments = JUndefined
    /\ calls = <<>>
    /\ resps = <<>>
    /\ response = NoResponse
    /\ vfun \in {"validateNodeName", "validateVMID", "validateCommand"}
    /\ vin \in ValidatorInputs(vfun)
    /\ vout = <<>>

ApplyValidateNodeName ==
    /\ vfun = "validateNodeName"
    /\ Len(vout) < MaxApply
    /\ vout' = Append(vout, validateNodeName(vin))
    /\ UNCHANGED <<server, vfun, vin>>

ApplyValidateVMID ==
    /\ vfun = "validateVMID"
    /\ Len(vout) < MaxApply
    /\ vout' = Append(vout, validateVMID(vin))
    /\ UNCHANGED <<server, vfun, vin>>

ApplyValidateCommand ==
    /\ vfun = "validateCommand"
    /\ Len(vout) < MaxApply
    /\ vout' = Append(vout, validateCommand(vin))
    /\ UNCHANGED <<server, vfun, vin>>

NextValidate ==
    \/ ApplyValidateNodeName
    \/ ApplyValidateVMID
    \/ ApplyValidateCommand

SpecValidate == InitValidate /\ [][NextValidate]_vars

-----------------------------------------------------------------------------
(* C5 - C7: the validators *)

Applied(f) == vfun = f /\ vout # <<>>

\* the integer a base-10 integer string denotes (optional white space and
\* sign, then digits only; above 999999999: 1000000000), or -1 for a string
\* that is no base-10 integer
DecimalValue(s) ==
    LET RECURSIVE Skip(_)
        Skip(x) == IF x # <<>> /\ Head(x).c \in WhiteSpaceChars
                   THEN Skip(Tail(x)) ELSE x
        RECURSIVE Shift(_, _, _)
        Shift(v, d, n) == IF n = 0 THEN v
                          ELSE IF v >= 100000000 THEN 1000000000
                          ELSE Shift(v * 10 + d, d, n - 1)
        RECURSIVE Value(_, _)
        Value(x, v) == IF x = <<>> THEN v
                       ELSE Value(Tail(x), Shift(v, DigitValue(Head(x).c), Head(x).n))
        t == Skip(s)
        signed == t # <<>> /\ Head(t).c \in {"+", "-"} /\ Head(t).n = 1
        u == IF signed THEN Tail(t) ELSE t
    IN  IF u = <<>> \/ ~(Symbols(u) \subseteq DigitChars) THEN -1
        ELSE IF signed /\ Head(t).c = "-" THEN 0 - Value(u, 0)
        ELSE Value(u, 0)

InVMIDRange(s) == DecimalValue(s) >= 100 /\ DecimalValue(s) <= 999999999

\* C5: validateVMID(s) succeeds exactly when the string s is a base-10 integer
\* in [100, 999999999], and then returns the canonical decimal string of that
\* integer.
C5_ValidatorRange ==
    (Applied("validateVMID") /\ vin.t = "string") =>
        \A i \in 1..Len(vout) :
            /\ vout[i].ok <=> InVMIDRange(vin.s)
            /\ vout[i].ok => Norm(vout[i].v) = Norm(NumToStr(DecimalValue(vin.s)))

\* the characters the node name may be made of
ClaimNodeNameChars == LetterChars \cup DigitChars \cup {"_", "-"}

\* C6: validateNodeName fails unless its argument is a non-empty string over
\* [A-Za-z0-9_-] of at most 64 characters, and returns it unchanged on success;
\* 'pve1; rm -rf', the empty string, non-strings and 65-character names fail.
C6_NodeName ==
    Applied("validateNodeName") =>
        \A i \in 1..Len(vout) :
            /\ vout[i].ok =>
                  /\ vin.t = "string"
                  /\ vin.s # <<>>
                  /\ Symbols(vin.s) \subseteq ClaimNodeNameChars
                  /\ StrLen(vin.s) <= 64
                  /\ vout[i].v = vin.s
            /\ vin = JStr(Chars(<<"p", "v", "e", "1", ";", " ", "r", "m", " ", "-", "r", "f">>))
                  => ~vout[i].ok
            /\ vin.t = "string" /\ StrLen(vin.s) = 65 => ~vout[i].ok

C6_Witness ==
    /\ Applied("validateNodeName")
    /\ vin = JStr(<<Run("p", 63), Run("7", 1)>>)
    /\ vout[1].ok
    /\ vout[1].v = vin.s

\* the characters a command may not contain
ClaimForbiddenChars == {";", "&", "|", "GRAVE", "$", "(", ")", "{", "}", "[",
                        "]", "<", ">", "\\"}

CommandRejects(i) ==
    (Symbols(vin.s) \cap ClaimForbiddenChars # {} \/ StrLen(vin.s) > 1000)
        => ~vout[i].ok

\* C7: validateCommand fails on every string with a forbidden character or
\* longer than 1000 characters, succeeds on every other string, returning it
\* unchanged, and gives the same result each time.
C7_Command ==
    (Applied("validateCommand") /\ vin.t = "string") =>
        \A i \in 1..Len(vout) :
            /\ CommandRejects(i)
            /\ (Symbols(vin.s) \cap ClaimForbiddenChars = {} /\ StrLen(vin.s) <= 1000)
                  => vout[i].ok /\ vout[i].v = vin.s
            /\ vout[i] = vout[1]

\* C7 as amended: as C7, for every other non-empty string.
C7_CommandNonEmpty ==
    (Applied("validateCommand") /\ vin.t = "string") =>
        \A i \in 1..Len(vout) :
            /\ CommandRejects(i)
            /\ (vin.s # <<>> /\ Symbols(vin.s) \cap ClaimForbiddenChars = {}
                    /\ StrLen(vin.s) <= 1000)
                  => vout[i].ok /\ vout[i].v = vin.s
            /\ vout[i] = vout[1]

C7_Witness ==
    /\ Applied("validateCommand")
    /\ vin = JStr(<<Run("l", 1000)>>)
    /\ Len(vout) = MaxApply
    /\ vout[MaxApply].ok
    /\ vout[MaxApply].v = vin.s

=============================================================================
